---- MODULE Spec2Model ----
(***************************************************************************)
(* Hardware-wallet signers of nucypher                                     *)
(* (nucypher/blockchain/eth/signers/hardware.py, base.py).                 *)
(*                                                                         *)
(* Python values are modelled as follows.                                  *)
(*   str        a sequence of one-character strings                        *)
(*   bytes      a sequence of integers 0..255                              *)
(*   dict       a function whose DOMAIN is the set of keys                 *)
(*   ordered dict (insertion order matters)  a sequence of <<key, value>>  *)
(*   a 32-bit unsigned integer of an HD path  its 4 big-endian bytes       *)
(*   an exception  the name of its class                                   *)
(* Checksum addresses are shortened from 20 bytes to AddressBytes bytes.   *)
(***************************************************************************)
EXTENDS Integers, Sequences, FiniteSets, TLC

VARIABLES
    family,     \* the session class the behaviour constructs: "trezor" | "ledger"
    devAddr,    \* the device: address it derives for each index (its seed)
    initPc,     \* position of the constructor (__init__) of the session
    handle,     \* TrezorSigner.__client / LedgerSigner.dongle
    deviceId,   \* TrezorSigner._device_id
    addresses,  \* the session's name-mangled __addresses attribute
    loadIndex,  \* loop variable of __load_addresses
    initError,  \* exception that left the constructor, "None" if none
    wire,       \* device requests issued by the constructor, in order
    callers,    \* per caller thread: position, call, its dict, requests, result
    calls,      \* number of calls started so far
    ls,         \* LedgerSigner.sign_transaction past path resolution (SpecLedgerSign)
    rs,         \* calls of __get_address_path on the session (SpecResolve)
    ud,         \* a call of Signer.from_signer_uri (SpecUri)
    two,        \* two sessions of one process and the class attributes (SpecTwo)
    re,         \* the session opened before this one on the same device (SpecReopen)
    mw          \* the signer middleware and its requests (SpecMiddleware)

vars == <<family, devAddr, initPc, handle, deviceId, addresses, loadIndex,
          initError, wire, callers, calls, ls, rs, ud, two, re, mw>>

sessionVars == <<family, devAddr, initPc, handle, deviceId, addresses,
                 loadIndex, initError, wire>>

laterVars == <<re, mw>>

otherVars == <<rs, ud, two, laterVars>>

----------------------------------------------------------------------------
(* Bounds of the model *)

NumCallers == 2
MaxCalls == 2
MaxDataLen == 480

Callers == 1..NumCallers

----------------------------------------------------------------------------
(* str, bytes and integer conversions *)

Digits == <<"0", "1", "2", "3", "4", "5", "6", "7", "8", "9">>

HexDigits == <<"0", "1", "2", "3", "4", "5", "6", "7", "8", "9",
               "a", "b", "c", "d", "e", "f">>

IsDigit(c) == \E i \in 1..10 : Digits[i] = c

DigitVal(c) == (CHOOSE i \in 1..10 : Digits[i] = c) - 1

HexVal(c) == (CHOOSE i \in 1..16 : HexDigits[i] = c) - 1

\* str(n) for n >= 0
RECURSIVE Str(_)
Str(n) == IF n < 10 THEN <<Digits[n + 1]>>
          ELSE Str(n \div 10) \o <<Digits[(n % 10) + 1]>>

\* int(s) for a str of decimal digits; -1 stands for ValueError
RECURSIVE ParseIntAcc(_, _)
ParseIntAcc(s, acc) ==
    IF s = <<>> THEN acc
    ELSE IF ~IsDigit(Head(s)) THEN -1
    ELSE ParseIntAcc(Tail(s), acc * 10 + DigitVal(Head(s)))

ParseInt(s) == IF s = <<>> THEN -1 ELSE ParseIntAcc(s, 0)

\* s.split(sep)
RECURSIVE SplitAcc(_, _, _, _)
SplitAcc(s, sep, cur, out) ==
    IF s = <<>> THEN Append(out, cur)
    ELSE IF Head(s) = sep THEN SplitAcc(Tail(s), sep, <<>>, Append(out, cur))
    ELSE SplitAcc(Tail(s), sep, Append(cur, Head(s)), out)

Split(s, sep) == SplitAcc(s, sep, <<>>, <<>>)

\* struct.pack(">I", n) for 0 <= n < 2^31, with the top bit set when hardened
PackU32(n, hardened) ==
    << (IF hardened THEN 128 ELSE 0) + ((n \div 16777216) % 128),
       (n \div 65536) % 256,
       (n \div 256) % 256,
       n % 256 >>

\* big-endian bytes -> int (eth_utils to_int on bytes; int(b.hex(), 16))
RECURSIVE BytesToIntAcc(_, _)
BytesToIntAcc(b, acc) ==
    IF b = <<>> THEN acc ELSE BytesToIntAcc(Tail(b), acc * 256 + Head(b))

BytesToInt(b) == BytesToIntAcc(b, 0)

\* int -> minimal big-endian bytes (0 is the empty byte string), as rlp does
RECURSIVE IntToBytes(_)
IntToBytes(n) == IF n = 0 THEN <<>> ELSE IntToBytes(n \div 256) \o <<n % 256>>

\* "0x..." hex str -> bytes (HexBytes, to_canonical_address)
HexPairs(s) ==
    [i \in 1..(Len(s) \div 2) |-> 16 * HexVal(s[2 * i - 1]) + HexVal(s[2 * i])]

HexToBytes(s) == HexPairs(SubSeq(s, 3, Len(s)))

\* bytes -> "0x..." hex str
BytesToHexAcc(b) ==
    [i \in 1..(2 * Len(b)) |->
       IF i % 2 = 1 THEN HexDigits[(b[(i + 1) \div 2] \div 16) + 1]
       ELSE HexDigits[(b[i \div 2] % 16) + 1]]

BytesToHex(b) == <<"0", "x">> \o BytesToHexAcc(b)

----------------------------------------------------------------------------
(* base.py: exception classes and HD wallet constants *)

\* Signer.SignerError and its subclasses (base.py 33-47)
SignerErrorKinds == {"SignerError", "InvalidSignerURI", "AccountLocked", "UnknownAccount"}

\* HardwareWallet.DeviceError and its subclass (base.py 115-119)
DeviceErrorKinds == {"DeviceError", "NoDeviceDetected"}

\* HDWallet.DERIVATION_ROOT = "44'/60'/0'/0"
DERIVATION_ROOT == <<"4", "4", "'", "/", "6", "0", "'", "/", "0", "'", "/", "0">>

ADDRESS_CACHE_SIZE == 10

----------------------------------------------------------------------------
(* Optional arguments: <<>> is None, <<x>> is the value x.  A str argument  *)
(* that is None or empty is the empty sequence (both are falsy, and neither *)
(* is a key of the address cache).                                          *)

None == <<>>
Some(x) == <<x>>

\* the result of a call: a value, or the exception that left it
Return(v) == [exc |-> "None", val |-> v]
Raise(e) == [exc |-> e, val |-> <<>>]

----------------------------------------------------------------------------
(* Ordered dict (Python 3.7 dict): a sequence of <<key, value>> pairs *)

DictKeys(d) == [i \in 1..Len(d) |-> d[i][1]]

DictHas(d, k) == \E i \in 1..Len(d) : d[i][1] = k

DictGet(d, k) == d[CHOOSE i \in 1..Len(d) : d[i][1] = k][2]

\* d[k] = v: an existing key keeps its position
DictSet(d, k, v) ==
    IF DictHas(d, k)
    THEN [i \in 1..Len(d) |-> IF d[i][1] = k THEN <<k, v>> ELSE d[i]]
    ELSE Append(d, <<k, v>>)

\* an attribute that was never assigned, and one that holds a dict
Unset == [set |-> FALSE, items |-> <<>>]
Attr(d) == [set |-> TRUE, items |-> d]

----------------------------------------------------------------------------
(* HD paths *)

\* trezorlib.tools.parse_path: split on "/", a token ending in ' or h is
\* hardened; the result is a list of 32-bit integers
ParsePathElement(tok) ==
    IF tok # <<>> /\ tok[Len(tok)] \in {"'", "h"}
    THEN PackU32(ParseInt(SubSeq(tok, 1, Len(tok) - 1)), TRUE)
    ELSE PackU32(ParseInt(tok), FALSE)

parse_path(nstr) ==
    IF nstr = <<>> THEN <<>>
    ELSE LET n == Split(nstr, "/")
         IN  [i \in 1..Len(n) |-> ParsePathElement(n[i])]

\* the index appended to the root without a separator
IndexPathStr_NoSeparator(index) == DERIVATION_ROOT \o Str(index)

\* f"{self.DERIVATION_ROOT}/{index}"
IndexPathStr(index) == DERIVATION_ROOT \o <<"/">> \o Str(index)

\* TrezorSigner.__get_address_path(index, checksum_address)
TrezorGetAddressPath(cache, index, checksum_address) ==
    IF index # None /\ checksum_address # <<>>
    THEN Raise("ValueError")
    ELSE IF index # None
    THEN Return(parse_path(IndexPathStr(index[1])))
    ELSE IF DictHas(cache.items, checksum_address)
         THEN Return(DictGet(cache.items, checksum_address))
         ELSE Raise("RuntimeError")

\* LedgerSigner.__get_address_path(checksum_address=...): the class never
\* assigns self.__addresses, so the lookup raises AttributeError, which the
\* except KeyError clause does not catch
LedgerGetAddressPath(cache, checksum_address) ==
    IF ~cache.set THEN Raise("AttributeError")
    ELSE IF DictHas(cache.items, checksum_address)
         THEN Return(DictGet(cache.items, checksum_address))
         ELSE Raise("RuntimeError")

----------------------------------------------------------------------------
(* The device and the transport libraries *)

\* a checksum address, AddressBytes = 1 byte long
AddrOf(k) == BytesToHex(<<k>>)

\* the addresses a device derives for the indices 0..ADDRESS_CACHE_SIZE-1:
\* pairwise distinct, or degenerate with one index repeating the address of
\* index 0
Indices == 0..(ADDRESS_CACHE_SIZE - 1)

DeviceSeeds ==
    { [i \in Indices |-> AddrOf(16 + (IF i = dup THEN 0 ELSE i))] :
        dup \in {0, 1, ADDRESS_CACHE_SIZE - 1} }

\* what a call into trezorlib on an opened client can raise when the device
\* is unplugged or held by another process (the two exceptions
\* handle_trezor_call names)
TrezorFaults == {"USBErrorNoDevice", "USBErrorBusy"}

\* what get_default_client raises when it finds no device
TrezorOpenFaults == {"TransportException"}

\* what ledgerblue raises (the exceptions handle_ledger_call names)
LedgerFaults == {"OSError", "CommException"}

\* both except clauses raising NoDeviceDetected
handle_trezor_call_BusyAsNoDevice(raised) ==
    CASE raised = "USBErrorNoDevice" -> "NoDeviceDetected"
      [] raised = "USBErrorBusy" -> "NoDeviceDetected"
      [] OTHER -> raised

\* handle_trezor_call: the exception that leaves the wrapper when `raised`
\* left the wrapped function
handle_trezor_call(raised) ==
    CASE raised = "USBErrorNoDevice" -> "NoDeviceDetected"
      [] raised = "USBErrorBusy" -> "DeviceError"
      [] OTHER -> raised

\* handle_ledger_call
handle_ledger_call(raised) ==
    IF raised \in {"OSError", "CommException"} THEN "NoDeviceDetected" ELSE raised

----------------------------------------------------------------------------
(* Construction of a session *)

\* TrezorSigner.__init__ line 80-82: get_default_client()
TrezorConnect ==
    /\ family = "trezor"
    /\ initPc = "new"
    /\ \E out \in {"ok"} \cup TrezorOpenFaults :
         IF out = "ok"
         THEN /\ handle' = "client"
              /\ initPc' = "get_device_id"
              /\ initError' = initError
         ELSE /\ handle' = handle
              /\ initPc' = "raised"
              /\ initError' = (IF out = "TransportException"
                               THEN "NoDeviceDetected" ELSE out)
    /\ UNCHANGED <<family, devAddr, deviceId, addresses, loadIndex, wire,
                   callers, calls, ls, otherVars>>

\* TrezorSigner.__init__ line 83-84: self.__client.get_device_id(), then
\* self.__addresses = dict()
TrezorGetDeviceId ==
    /\ family = "trezor"
    /\ initPc = "get_device_id"
    /\ \E out \in {"ok"} \cup TrezorFaults :
         IF out = "ok"
         THEN /\ deviceId' = "device-id"
              /\ addresses' = Attr(<<>>)
              /\ loadIndex' = 0
              /\ initPc' = (IF ADDRESS_CACHE_SIZE = 0 THEN "done" ELSE "load_addresses")
              /\ initError' = initError
         ELSE /\ initPc' = "raised"
              /\ initError' = out
              /\ UNCHANGED <<deviceId, addresses, loadIndex>>
    /\ UNCHANGED <<family, devAddr, handle, wire, callers, calls, ls, otherVars>>

\* TrezorSigner.__get_address up to the device call: the path it asks for
TrezorGetAddressArgs(cache, index, hd_path) ==
    IF hd_path = <<>>
    THEN IF index = None THEN Raise("ValueError")
         ELSE TrezorGetAddressPath(cache, index, <<>>)
    ELSE Return(hd_path)

\* the loop of __load_addresses deriving its paths from a count of all
\* requests made to the device instead of the loop index
TrezorLoadStep_CountingRequests ==
    /\ family = "trezor"
    /\ initPc = "load_addresses"
    /\ loadIndex < ADDRESS_CACHE_SIZE
    /\ LET hd_path == TrezorGetAddressPath(addresses, Some(Len(wire)), <<>>).val
           n == TrezorGetAddressArgs(addresses, None, hd_path).val
       IN  \E out \in {"ok"} \cup TrezorFaults :
             /\ wire' = Append(wire, [op |-> "get_address", n |-> n,
                                      show_display |-> FALSE, raised |-> out])
             /\ IF out = "ok"
                THEN /\ addresses' = Attr(DictSet(addresses.items,
                                                  devAddr[loadIndex], hd_path))
                     /\ loadIndex' = loadIndex + 1
                     /\ initPc' = (IF loadIndex + 1 = ADDRESS_CACHE_SIZE
                                   THEN "done" ELSE "load_addresses")
                     /\ initError' = initError
                ELSE /\ initPc' = "raised"
                     /\ initError' = handle_trezor_call(out)
                     /\ UNCHANGED <<addresses, loadIndex>>
    /\ UNCHANGED <<family, devAddr, handle, deviceId, callers, calls, ls, otherVars>>

\* one iteration of the loop of TrezorSigner.__load_addresses; the request
\* is logged with what the library call did ("ok" or the exception it raised)
TrezorLoadStep ==
    /\ family = "trezor"
    /\ initPc = "load_addresses"
    /\ loadIndex < ADDRESS_CACHE_SIZE
    /\ LET hd_path == TrezorGetAddressPath(addresses, Some(loadIndex), <<>>).val
           n == TrezorGetAddressArgs(addresses, None, hd_path).val
       IN  \E out \in {"ok"} \cup TrezorFaults :
             /\ wire' = Append(wire, [op |-> "get_address", n |-> n,
                                      show_display |-> FALSE, raised |-> out])
             /\ IF out = "ok"
                THEN /\ addresses' = Attr(DictSet(addresses.items,
                                                  devAddr[loadIndex], hd_path))
                     /\ loadIndex' = loadIndex + 1
                     /\ initPc' = (IF loadIndex + 1 = ADDRESS_CACHE_SIZE
                                   THEN "done" ELSE "load_addresses")
                     /\ initError' = initError
                ELSE /\ initPc' = "raised"
                     /\ initError' = handle_trezor_call(out)
                     /\ UNCHANGED <<addresses, loadIndex>>
    /\ UNCHANGED <<family, devAddr, handle, deviceId, callers, calls, ls, otherVars>>

\* LedgerSigner.__init__ (wrapped by handle_ledger_call): getDongle(debug=False)
LedgerInit ==
    /\ family = "ledger"
    /\ initPc = "new"
    /\ \E out \in {"ok"} \cup LedgerFaults :
         IF out = "ok"
         THEN /\ handle' = "dongle"
              /\ initPc' = "done"
              /\ initError' = initError
         ELSE /\ handle' = handle
              /\ initPc' = "raised"
              /\ initError' = handle_ledger_call(out)
    /\ UNCHANGED <<family, devAddr, deviceId, addresses, loadIndex, wire,
                   callers, calls, ls, otherVars>>

\* the state of the session in the terms of the session state machine
SessionState ==
    CASE initPc = "new" -> "Uninitialized"
      [] initPc \in {"get_device_id", "load_addresses"} -> "Connected"
      [] initPc = "done" -> "Ready"
      [] OTHER -> "Disconnected"

----------------------------------------------------------------------------
(* dict with str keys: a function; keys are TLA+ strings *)

DictDel(d, k) == [x \in (DOMAIN d) \ {k} |-> d[x]]

DictPut(d, k, v) == [x \in (DOMAIN d) \cup {k} |-> IF x = k THEN v ELSE d[x]]

EmptyDict == [x \in {} |-> 0]

\* eth_utils apply_key_map: rename the keys the map names, keep the others
apply_key_map(key_map, d) ==
    LET NewKey(k) == IF k \in DOMAIN key_map THEN key_map[k] ELSE k
        OldKey(n) == CHOOSE k \in DOMAIN d : NewKey(k) = n
    IN  [n \in {NewKey(k) : k \in DOMAIN d} |-> d[OldKey(n)]]

----------------------------------------------------------------------------
(* RLP (rlp.encode), for payloads shorter than 2^16 bytes *)

\* length prefix of a string (offset 128) or list (offset 192) payload
RlpPrefix(len, offset) ==
    IF len <= 55 THEN <<offset + len>>
    ELSE LET lb == IntToBytes(len) IN <<offset + 55 + Len(lb)>> \o lb

RlpBytes(b) ==
    IF Len(b) = 1 /\ b[1] < 128 THEN b ELSE RlpPrefix(Len(b), 128) \o b

RlpInt(n) == RlpBytes(IntToBytes(n))

RECURSIVE Concat(_)
Concat(ss) == IF ss = <<>> THEN <<>> ELSE Head(ss) \o Concat(Tail(ss))

\* a list of already encoded items
RlpList(items) ==
    LET body == Concat(items) IN RlpPrefix(Len(body), 192) \o body

\* rlp.decode of a list of strings, for encodings built by RlpList: the
\* sequence of the items' byte strings
RlpHeaderLen(b) ==
    IF b[1] < 128 THEN 0
    ELSE IF b[1] <= 183 THEN 1
    ELSE IF b[1] < 192 THEN 1 + (b[1] - 183)
    ELSE IF b[1] <= 247 THEN 1
    ELSE 1 + (b[1] - 247)

RlpPayloadLen(b) ==
    IF b[1] < 128 THEN 1
    ELSE IF b[1] <= 183 THEN b[1] - 128
    ELSE IF b[1] < 192 THEN BytesToInt(SubSeq(b, 2, 1 + (b[1] - 183)))
    ELSE IF b[1] <= 247 THEN b[1] - 192
    ELSE BytesToInt(SubSeq(b, 2, 1 + (b[1] - 247)))

RECURSIVE RlpItems(_)
RlpItems(b) ==
    IF b = <<>> THEN <<>>
    ELSE LET h == RlpHeaderLen(b)
             n == RlpPayloadLen(b)
         IN  <<SubSeq(b, h + 1, h + n)>> \o RlpItems(SubSeq(b, h + n + 1, Len(b)))

RlpDecodeList(b) ==
    RlpItems(SubSeq(b, RlpHeaderLen(b) + 1, RlpHeaderLen(b) + RlpPayloadLen(b)))

----------------------------------------------------------------------------
(* Transactions (eth_account._utils.transactions) *)

TxIntFields == {"nonce", "gasPrice", "gas", "value", "chainId"}

\* ALLOWED_TRANSACTION_KEYS, and the keys without a default
AllowedTxKeys == {"nonce", "gasPrice", "gas", "to", "value", "data", "chainId"}
RequiredTxKeys == {"nonce", "gasPrice", "gas"}

\* assert_valid_fields: "None" or the exception it raises
assert_valid_fields(d) ==
    IF ~(RequiredTxKeys \subseteq DOMAIN d) THEN "TypeError"
    ELSE IF ~((DOMAIN d) \subseteq AllowedTxKeys) THEN "TypeError"
    ELSE IF \E k \in (DOMAIN d) \cap TxIntFields : d[k] < 0 THEN "TypeError"
    ELSE "None"

\* the field names of eth_account's Transaction, in serialization order
SignedTxFields == <<"nonce", "gasPrice", "gas", "to", "value", "data", "v", "r", "s">>

SignedTxKeys == {SignedTxFields[i] : i \in 1..Len(SignedTxFields)}

\* Transaction(v=..., r=..., s=..., **transaction_dict): an rlp Serializable
\* takes exactly its fields as keyword arguments
Transaction(v, r, s, transaction_dict) ==
    IF (DOMAIN transaction_dict) \cap {"v", "r", "s"} # {} THEN Raise("TypeError")
    ELSE LET kw == DictPut(DictPut(DictPut(transaction_dict, "v", v), "r", r), "s", s)
         IN  IF DOMAIN kw # SignedTxKeys THEN Raise("TypeError") ELSE Return(kw)

\* rlp.encode of a Transaction: `to` and `data` are bytes, the rest integers
RlpEncodeTx(tx) ==
    RlpList([i \in 1..Len(SignedTxFields) |->
               IF SignedTxFields[i] \in {"to", "data"}
               THEN RlpBytes(tx[SignedTxFields[i]])
               ELSE RlpInt(tx[SignedTxFields[i]])])

----------------------------------------------------------------------------
(* TrezorSigner.sign_transaction *)

\* TrezorSigner._format_transaction
TrezorTransactionKeys ==
    [gas |-> "gas_limit", gasPrice |-> "gas_price", chainId |-> "chain_id"]

TrezorFormatTransaction(transaction_dict) ==
    IF assert_valid_fields(transaction_dict) # "None"
    THEN Raise(assert_valid_fields(transaction_dict))
    ELSE Return(apply_key_map(TrezorTransactionKeys, transaction_dict))

\* lines 195-199: pop 'from', convert the data field to bytes
TrezorPopFrom(transaction_dict) ==
    LET d1 == DictDel(transaction_dict, "from")
    IN  IF "data" \in DOMAIN d1 THEN DictPut(d1, "data", HexToBytes(d1["data"])) ELSE d1

\* lines 195-210: everything before the device call.  txd is the caller's
\* dict as the method has changed it so far.
TrezorSignPrepare(cache, transaction_dict) ==
    IF "from" \notin DOMAIN transaction_dict
    THEN [exc |-> "KeyError", txd |-> transaction_dict, sender |-> <<>>,
          n |-> <<>>, fields |-> EmptyDict]
    ELSE
    LET checksum_address == transaction_dict["from"]
        txd == TrezorPopFrom(transaction_dict)
        fmt == TrezorFormatTransaction(txd)
        path == TrezorGetAddressPath(cache, None, checksum_address)
        Fail(e) == [exc |-> e, txd |-> txd, sender |-> checksum_address,
                    n |-> <<>>, fields |-> EmptyDict]
    IN  IF "chainId" \notin DOMAIN txd THEN Fail("SignerError")
        ELSE IF fmt.exc # "None" THEN Fail(fmt.exc)
        ELSE IF path.exc # "None" THEN Fail(path.exc)
        ELSE [exc |-> "None", txd |-> txd, sender |-> checksum_address,
              n |-> path.val, fields |-> fmt.val]

\* to_canonical_address: checksum str -> bytes
to_canonical_address(address) == HexToBytes(address)

\* the value the signed transaction's `to` field is given (line 217)
TrezorSignedTo(transaction_dict, checksum_address) ==
    to_canonical_address(checksum_address)

\* lines 216-229: everything after the device call
TrezorSignFinish(transaction_dict, checksum_address, sig, rlp_encoded) ==
    LET d1 == DictDel(transaction_dict, "chainId")
        d2 == DictPut(d1, "to", TrezorSignedTo(d1, checksum_address))
        tx == Transaction(sig.v, BytesToInt(sig.r), BytesToInt(sig.s), d2)
    IN  [txd |-> d2,
         ret |-> IF tx.exc # "None" THEN tx
                 ELSE IF rlp_encoded THEN Return(RlpEncodeTx(tx.val))
                 ELSE tx]

----------------------------------------------------------------------------
(* Callers and their inputs *)

\* an address the device never derives
UnknownAddress == AddrOf(200)

Tx(from, data) ==
    [from |-> from, to |-> devAddr[1], value |-> 100, gas |-> 21000,
     gasPrice |-> 1000000000, nonce |-> 0, chainId |-> 1, data |-> data]

\* the transaction dicts callers pass: sender cached or not, chainId present
\* or not, data empty or not, and one with a negative value
TxRequests ==
    LET full == { Tx(f, d) : f \in {devAddr[0], UnknownAddress},
                             d \in {<<"0", "x">>, <<"0", "x", "0", "1", "a", "b">>} }
    IN  full \cup { DictDel(t, "chainId") : t \in full }
             \cup { [Tx(devAddr[0], <<"0", "x">>) EXCEPT !.value = -1] }

\* signatures a device answers with; r and s are 32 bytes on a real device
\* and are shortened here
DeviceSigs == { [v |-> 37, r |-> <<1, 1>>, s |-> <<2, 2>>],
                [v |-> 38, r |-> <<0, 255>>, s |-> <<3>>] }

Messages == { <<104, 105>> }

MessageSignatures == { <<7, 7, 27>> }

IdleCaller ==
    [pc |-> "idle", op |-> "none", req |-> EmptyDict, rlp |-> FALSE,
     txd |-> EmptyDict, sender |-> <<>>, sent |-> <<>>, ret |-> Return(<<>>)]

\* a caller may start a call on a constructed session when it is not inside one
CanCall(c) ==
    /\ initPc = "done"
    /\ callers[c].pc # "device"
    /\ calls < MaxCalls

\* the call of caller c has ended with result ret
Done(c, rec, ret) == [callers EXCEPT ![c] = [rec EXCEPT !.pc = "done", !.ret = ret]]

----------------------------------------------------------------------------
(* TrezorSigner operations *)

\* accounts emptying the cache as it lists it
TrezorAccounts_Draining(c) ==
    /\ family = "trezor"
    /\ CanCall(c)
    /\ callers' = Done(c, [IdleCaller EXCEPT !.op = "accounts"],
                       Return(DictKeys(addresses.items)))
    /\ calls' = calls + 1
    /\ addresses' = Attr(<<>>)
    /\ UNCHANGED <<family, devAddr, initPc, handle, deviceId, loadIndex,
                   initError, wire, ls, otherVars>>

\* TrezorSigner.accounts
TrezorAccounts(c) ==
    /\ family = "trezor"
    /\ CanCall(c)
    /\ callers' = Done(c, [IdleCaller EXCEPT !.op = "accounts"],
                       Return(DictKeys(addresses.items)))
    /\ calls' = calls + 1
    /\ UNCHANGED <<sessionVars, ls, otherVars>>

\* TrezorSigner.sign_message up to the device call
TrezorSignMessageCall(c) ==
    /\ family = "trezor"
    /\ CanCall(c)
    /\ \E message \in Messages, checksum_address \in {devAddr[0], UnknownAddress, <<>>} :
         LET hd_path == TrezorGetAddressPath(addresses, None, checksum_address)
             rec == [IdleCaller EXCEPT !.op = "sign_message",
                                       !.req = [message |-> message,
                                                checksum_address |-> checksum_address],
                                       !.sender = checksum_address]
         IN  callers' =
               IF hd_path.exc # "None"
               THEN Done(c, rec, Raise(handle_trezor_call(hd_path.exc)))
               ELSE [callers EXCEPT ![c] =
                       [rec EXCEPT !.pc = "device",
                                   !.sent = <<[op |-> "sign_message",
                                               n |-> hd_path.val,
                                               message |-> message]>>]]
    /\ calls' = calls + 1
    /\ UNCHANGED <<sessionVars, ls, otherVars>>

\* TrezorSigner.sign_message: the device call returns or raises
TrezorSignMessageReturn(c) ==
    /\ family = "trezor"
    /\ callers[c].pc = "device"
    /\ callers[c].op = "sign_message"
    /\ \/ \E signature \in MessageSignatures :
            callers' = Done(c, callers[c], Return(signature))
       \/ \E fault \in TrezorFaults :
            callers' = Done(c, callers[c], Raise(handle_trezor_call(fault)))
    /\ UNCHANGED <<sessionVars, calls, ls, otherVars>>

\* TrezorSigner.sign_transaction up to the call of __sign_transaction
TrezorSignTransactionCall(c) ==
    /\ family = "trezor"
    /\ CanCall(c)
    /\ \E transaction_dict \in TxRequests, rlp_encoded \in BOOLEAN :
         LET p == TrezorSignPrepare(addresses, transaction_dict)
             rec == [IdleCaller EXCEPT !.op = "sign_transaction",
                                       !.req = transaction_dict,
                                       !.rlp = rlp_encoded,
                                       !.txd = p.txd,
                                       !.sender = p.sender]
         IN  callers' =
               IF p.exc # "None"
               THEN Done(c, rec, Raise(p.exc))
               ELSE [callers EXCEPT ![c] =
                       [rec EXCEPT !.pc = "device",
                                   !.sent = <<[op |-> "sign_tx", n |-> p.n,
                                               fields |-> p.fields]>>]]
    /\ calls' = calls + 1
    /\ UNCHANGED <<sessionVars, ls, otherVars>>

\* TrezorSigner.sign_transaction from the return of __sign_transaction
\* (wrapped by handle_trezor_call) on
TrezorSignTransactionReturn(c) ==
    /\ family = "trezor"
    /\ callers[c].pc = "device"
    /\ callers[c].op = "sign_transaction"
    /\ \/ \E sig \in DeviceSigs :
            LET f == TrezorSignFinish(callers[c].txd, callers[c].sender, sig,
                                      callers[c].rlp)
            IN  callers' = Done(c, [callers[c] EXCEPT !.txd = f.txd], f.ret)
       \/ \E fault \in TrezorFaults :
            callers' = Done(c, callers[c], Raise(handle_trezor_call(fault)))
    /\ UNCHANGED <<sessionVars, calls, ls, otherVars>>

\* the validate_checksum_address decorator of lock_account and
\* unlock_account (nucypher/blockchain/eth/decorators.py): the exception it
\* raises for an account argument, "None" when it lets the call through
validate_checksum_address(account) == "None"

\* lock_account / unlock_account refusing an account that is not cached
LockAccount_CheckingAccount(c) ==
    /\ CanCall(c)
    /\ \E op \in {"lock_account", "unlock_account"}, account \in {devAddr[0], UnknownAddress} :
         callers' = Done(c, [IdleCaller EXCEPT !.op = op, !.sender = account],
                         IF addresses.set /\ DictHas(addresses.items, account)
                         THEN Return(TRUE) ELSE Raise("UnknownAccount"))
    /\ calls' = calls + 1
    /\ UNCHANGED <<sessionVars, ls, otherVars>>

\* HardwareWallet.lock_account / unlock_account, on a checksum address
LockAccount(c) ==
    /\ CanCall(c)
    /\ \E op \in {"lock_account", "unlock_account"}, account \in {devAddr[0], UnknownAddress} :
         callers' = Done(c, [IdleCaller EXCEPT !.op = op, !.sender = account],
                         IF validate_checksum_address(account) # "None"
                         THEN Raise(validate_checksum_address(account))
                         ELSE Return(TRUE))
    /\ calls' = calls + 1
    /\ UNCHANGED <<sessionVars, ls, otherVars>>

----------------------------------------------------------------------------
(* LedgerSigner operations *)

\* serializable_unsigned_transaction_from_dict followed by rlp.encode:
\* defaults filled in, hex strs converted to bytes, and with a chainId the
\* fields v = chainId, r = 0, s = 0 appended
LedgerEncodeUnsigned(d) ==
    LET to == IF "to" \in DOMAIN d THEN HexToBytes(d["to"]) ELSE <<>>
        value == IF "value" \in DOMAIN d THEN d["value"] ELSE 0
        data == IF "data" \in DOMAIN d THEN HexToBytes(d["data"]) ELSE <<>>
        base == <<RlpInt(d["nonce"]), RlpInt(d["gasPrice"]), RlpInt(d["gas"]),
                  RlpBytes(to), RlpInt(value), RlpBytes(data)>>
    IN  IF assert_valid_fields(d) # "None" THEN Raise(assert_valid_fields(d))
        ELSE IF "chainId" \in DOMAIN d
        THEN Return(RlpList(base \o <<RlpInt(d["chainId"]), RlpInt(0), RlpInt(0)>>))
        ELSE Return(RlpList(base))

\* LedgerSigner.encode_path(hd_path: str)
LedgerEncodeElement(pathElement) ==
    LET element == Split(pathElement, "'")
    IN  IF Len(element) = 1 THEN PackU32(ParseInt(element[1]), FALSE)
        ELSE PackU32(ParseInt(element[1]), TRUE)

encode_path(hd_path) ==
    IF Len(hd_path) = 0 THEN <<>>
    ELSE LET elements == Split(hd_path, "/")
         IN  Concat([i \in 1..Len(elements) |-> LedgerEncodeElement(elements[i])])

\* the data payload put together as count, transaction, path: the path
\* behind the transaction bytes instead of in front of them
LedgerSignBuild_PathLast(transaction_dict, resolved) ==
    IF "from" \notin DOMAIN transaction_dict
    THEN [exc |-> "KeyError", txd |-> transaction_dict, dataPayload |-> <<>>]
    ELSE
    LET txd == DictDel(transaction_dict, "from")
        encodedTx == LedgerEncodeUnsigned(txd)
        encodedPath == encode_path(resolved.val)
        derivationPathCount == <<(Len(encodedPath) \div 4) % 256>>
    IN  IF encodedTx.exc # "None"
        THEN [exc |-> encodedTx.exc, txd |-> txd, dataPayload |-> <<>>]
        ELSE IF resolved.exc # "None"
        THEN [exc |-> resolved.exc, txd |-> txd, dataPayload |-> <<>>]
        ELSE [exc |-> "None", txd |-> txd,
              dataPayload |-> derivationPathCount \o encodedTx.val \o encodedPath]

\* LedgerSigner.sign_transaction lines 366-379, given what
\* self.__get_address_path(checksum_address=sender) does: the data payload
LedgerSignBuild(transaction_dict, resolved) ==
    IF "from" \notin DOMAIN transaction_dict
    THEN [exc |-> "KeyError", txd |-> transaction_dict, dataPayload |-> <<>>]
    ELSE
    LET txd == DictDel(transaction_dict, "from")
        encodedTx == LedgerEncodeUnsigned(txd)
        encodedPath == encode_path(resolved.val)
        derivationPathCount == <<(Len(encodedPath) \div 4) % 256>>
    IN  IF encodedTx.exc # "None"
        THEN [exc |-> encodedTx.exc, txd |-> txd, dataPayload |-> <<>>]
        ELSE IF resolved.exc # "None"
        THEN [exc |-> resolved.exc, txd |-> txd, dataPayload |-> <<>>]
        ELSE [exc |-> "None", txd |-> txd,
              dataPayload |-> derivationPathCount \o encodedPath \o encodedTx.val]

\* LedgerSigner.sign_transaction (wrapped by handle_ledger_call) on a
\* constructed session: the sender is resolved against self.__addresses,
\* which raises before any exchange.  What follows a resolved path is the
\* subject of SpecLedgerSign.
LedgerSignTransaction(c) ==
    /\ family = "ledger"
    /\ CanCall(c)
    /\ \E transaction_dict \in TxRequests, rlp_encoded \in BOOLEAN :
         LET b == LedgerSignBuild(transaction_dict,
                                  LedgerGetAddressPath(addresses, transaction_dict["from"]))
             rec == [IdleCaller EXCEPT !.op = "sign_transaction",
                                       !.req = transaction_dict,
                                       !.rlp = rlp_encoded,
                                       !.txd = b.txd,
                                       !.sender = transaction_dict["from"]]
         IN  /\ b.exc # "None"
             /\ callers' = Done(c, rec, Raise(handle_ledger_call(b.exc)))
    /\ calls' = calls + 1
    /\ UNCHANGED <<sessionVars, ls, otherVars>>

\* LedgerSigner.sign_message: returns the NotImplemented singleton
LedgerSignMessage(c) ==
    /\ family = "ledger"
    /\ CanCall(c)
    /\ \E message \in Messages, account \in {devAddr[0], UnknownAddress} :
         callers' = Done(c, [IdleCaller EXCEPT !.op = "sign_message",
                                               !.req = [message |-> message,
                                                        checksum_address |-> account],
                                               !.sender = account],
                         Return("NotImplemented"))
    /\ calls' = calls + 1
    /\ UNCHANGED <<sessionVars, ls, otherVars>>

\* LedgerSigner.accounts: self.get_address is defined nowhere in the class
\* or its bases
LedgerAccounts(c) ==
    /\ family = "ledger"
    /\ CanCall(c)
    /\ callers' = Done(c, [IdleCaller EXCEPT !.op = "accounts"], Raise("AttributeError"))
    /\ calls' = calls + 1
    /\ UNCHANGED <<sessionVars, ls, otherVars>>

\* LedgerSigner.version up to the exchange
VersionApdu == <<224, 6, 0, 0, 0, 4>>

LedgerVersionCall(c) ==
    /\ family = "ledger"
    /\ CanCall(c)
    /\ LET rec == [IdleCaller EXCEPT !.op = "version"]
       IN  callers' =
             IF handle = "None"
             THEN Done(c, rec, Raise(handle_ledger_call("AttributeError")))
             ELSE [callers EXCEPT ![c] =
                     [rec EXCEPT !.pc = "device",
                                 !.sent = <<[op |-> "exchange", apdu |-> VersionApdu]>>]]
    /\ calls' = calls + 1
    /\ UNCHANGED <<sessionVars, ls, otherVars>>

\* LedgerSigner.version: the exchange returns or raises
LedgerVersionReturn(c) ==
    /\ family = "ledger"
    /\ callers[c].pc = "device"
    /\ callers[c].op = "version"
    /\ \/ callers' = Done(c, callers[c], Return(<<1, 4, 5>>))
       \/ \E fault \in LedgerFaults :
            callers' = Done(c, callers[c], Raise(handle_ledger_call(fault)))
    /\ UNCHANGED <<sessionVars, calls, ls, otherVars>>

\* LedgerSigner.close
LedgerClose(c) ==
    /\ family = "ledger"
    /\ CanCall(c)
    /\ LET rec == [IdleCaller EXCEPT !.op = "close"]
       IN  IF handle = "None"
           THEN /\ callers' = Done(c, rec, Raise(handle_ledger_call("AttributeError")))
                /\ handle' = handle
           ELSE \/ /\ callers' = Done(c, [rec EXCEPT !.sent = <<[op |-> "device.close"]>>],
                                      Return(<<>>))
                   /\ handle' = "None"
                \/ /\ \E fault \in LedgerFaults :
                        callers' = Done(c, [rec EXCEPT !.sent = <<[op |-> "device.close"]>>],
                                        Raise(handle_ledger_call(fault)))
                   /\ handle' = handle
    /\ calls' = calls + 1
    /\ UNCHANGED <<family, devAddr, initPc, deviceId, addresses, loadIndex,
                   initError, wire, ls, otherVars>>

----------------------------------------------------------------------------
(* The sessions and their callers *)

LsIdle ==
    [pc |-> "off", req |-> EmptyDict, rlp |-> FALSE, hd_path |-> <<>>,
     txd |-> EmptyDict, payload |-> <<>>, dataPayload |-> <<>>, p1_op |-> 0,
     apdus |-> <<>>, sig |-> <<>>, ret |-> Return(<<>>)]

\* no call of __get_address_path was made
RsIdle ==
    [pc |-> "idle", index |-> <<>>, checksum_address |-> <<>>, lookups |-> 0,
     ret |-> Return(<<>>)]

\* no call of Signer.from_signer_uri was made
UdIdle ==
    [pc |-> "idle", uri |-> <<>>, key |-> <<>>, cls |-> "None",
     passthrough |-> "None", ret |-> Return(<<>>)]

\* no session object exists and LedgerSigner has no class attribute _driver
TwoIdle ==
    [pc |-> "off", sess |-> <<>>, driver |-> 0, fresh |-> 0, ops |-> 0,
     actor |-> 0, ret |-> Return(<<>>)]

\* no session was opened before this one
ReIdle == [n |-> 0, addresses |-> Unset, accounts |-> <<>>]

\* no middleware was constructed.  Once one is, the fields are those of the
\* invocation of middleware(method, params) in progress or last made:
\* the transaction format_and_fill_tx returned (filled), the calls made on
\* w3, the dicts signer.sign_transaction was called with, the make_request
\* calls made, and what the invocation returned or raised.
MwIdle ==
    [pc |-> "off", accounts |-> <<>>, method |-> "None", params |-> <<>>,
     filled |-> FALSE, transaction |-> EmptyDict, w3calls |-> <<>>,
     signed |-> <<>>, signRet |-> Return(<<>>), sent |-> <<>>,
     ret |-> Return(<<>>)]

Init ==
    /\ family \in {"trezor", "ledger"}
    /\ devAddr \in DeviceSeeds
    /\ initPc = "new"
    /\ handle = "None"
    /\ deviceId = "None"
    /\ addresses = Unset
    /\ loadIndex = 0
    /\ initError = "None"
    /\ wire = <<>>
    /\ callers = [c \in Callers |-> IdleCaller]
    /\ calls = 0
    /\ ls = LsIdle
    /\ rs = RsIdle
    /\ ud = UdIdle
    /\ two = TwoIdle
    /\ re = ReIdle
    /\ mw = MwIdle

Next ==
    \/ TrezorConnect
    \/ TrezorGetDeviceId
    \/ TrezorLoadStep
    \/ LedgerInit
    \/ \E c \in Callers : TrezorAccounts(c)
    \/ \E c \in Callers : TrezorSignMessageCall(c)
    \/ \E c \in Callers : TrezorSignMessageReturn(c)
    \/ \E c \in Callers : TrezorSignTransactionCall(c)
    \/ \E c \in Callers : TrezorSignTransactionReturn(c)
    \/ \E c \in Callers : LockAccount(c)
    \/ \E c \in Callers : LedgerSignTransaction(c)
    \/ \E c \in Callers : LedgerSignMessage(c)
    \/ \E c \in Callers : LedgerAccounts(c)
    \/ \E c \in Callers : LedgerVersionCall(c)
    \/ \E c \in Callers : LedgerVersionReturn(c)
    \/ \E c \in Callers : LedgerClose(c)

Spec == Init /\ [][Next]_vars

----------------------------------------------------------------------------
(* LedgerSigner.sign_transaction for a sender whose path is resolved: the    *)
(* chunked exchange, lines 366-417.  The inputs are the transaction dict,   *)
(* rlp_encoded and the hd_path the lookup yields.                           *)

CHUNK_SIZE == 255

CLA == 224
INS_OPCODE_SIGN_TRANS == 4
P1_FIRST_TRANS_DATA_BLOCK == 0
P1_SUBSEQUENT_TRANS_DATA_BLOCK == 128
P2_UNUSED_PARAMETER == 0

DataBytes(n) == [i \in 1..n |-> (i * 7) % 256]

Zeros(n) == [i \in 1..n |-> 0]

\* a 65-byte response v | r | s, with r and s small enough for 32-bit integers
SigResponse(v, r, s) ==
    <<v>> \o Zeros(32 - Len(r)) \o r \o Zeros(32 - Len(s)) \o s

\* what the dongle answers to an exchange: a signature, nothing, or one byte
DongleResponses == { SigResponse(37, <<1, 1>>, <<2, 2>>),
                     SigResponse(38, <<255>>, <<3, 0>>),
                     <<>>,
                     <<27>> }

\* result[a:b] of Python, 0-based and clipped
Slice(b, from, to) ==
    SubSeq(b, from + 1, IF to < Len(b) THEN to ELSE Len(b))

\* lines 403-405: _v, _r, _s from an exchange result
LedgerParseResult(result) ==
    IF Len(result) = 0 THEN Raise("IndexError")
    ELSE IF Slice(result, 1, 33) = <<>> THEN Raise("ValueError")
    ELSE IF Slice(result, 33, 65) = <<>> THEN Raise("ValueError")
    ELSE Return([v |-> result[1],
                 r |-> BytesToInt(Slice(result, 1, 33)),
                 s |-> BytesToInt(Slice(result, 33, 65))])

\* a chunk limit of 256 bytes instead of 255
ChunkSize_Limit256(dataPayload) ==
    IF 256 > Len(dataPayload) THEN Len(dataPayload) ELSE 256

\* lines 387-389: the size of the next chunk
ChunkSize(dataPayload) ==
    IF CHUNK_SIZE > Len(dataPayload) THEN Len(dataPayload) ELSE CHUNK_SIZE

\* lines 391-397: the APDU of the next chunk
LedgerApdu(p1_op, dataPayload) ==
    <<CLA, INS_OPCODE_SIGN_TRANS, p1_op, P2_UNUSED_PARAMETER,
      ChunkSize(dataPayload)>> \o SubSeq(dataPayload, 1, ChunkSize(dataPayload))

\* the rest of the payload taken one byte past the chunk that was sent
LedgerRest_SkipsByte(dataPayload) ==
    SubSeq(dataPayload, ChunkSize(dataPayload) + 2, Len(dataPayload))

\* line 400: what is left of the payload after a chunk
LedgerRest(dataPayload) ==
    SubSeq(dataPayload, ChunkSize(dataPayload) + 1, Len(dataPayload))

\* lines 408-417.  transaction_dict is the caller's dict less 'from': it
\* still holds chainId when the caller gave one, and `to` and `data` as the
\* strs the caller gave, which rlp's binary sedes does not serialize
LedgerSignFinish(transaction_dict, sig, rlp_encoded) ==
    LET tx == Transaction(sig.v, sig.r, sig.s, transaction_dict)
    IN  IF tx.exc # "None" THEN tx
        ELSE IF rlp_encoded THEN Raise("SerializationError")
        ELSE tx

LsTx(n, withChainId) ==
    LET t == Tx(devAddr[0], BytesToHex(DataBytes(n)))
    IN  IF withChainId THEN t ELSE DictDel(t, "chainId")

LsInit ==
    /\ family = "ledger"
    /\ devAddr = [i \in Indices |-> AddrOf(16 + i)]
    /\ initPc = "done"
    /\ handle = "dongle"
    /\ deviceId = "None"
    /\ addresses = Unset
    /\ loadIndex = 0
    /\ initError = "None"
    /\ wire = <<>>
    /\ callers = [c \in Callers |-> IdleCaller]
    /\ calls = 0
    /\ \E n \in 0..MaxDataLen, withChainId \in BOOLEAN, rlp_encoded \in BOOLEAN :
         ls = [LsIdle EXCEPT !.pc = "start",
                             !.req = LsTx(n, withChainId),
                             !.rlp = rlp_encoded,
                             !.hd_path = IndexPathStr(0)]
    /\ rs = RsIdle
    /\ ud = UdIdle
    /\ two = TwoIdle
    /\ re = ReIdle
    /\ mw = MwIdle

\* lines 366-385: build the data payload
LsBuild ==
    /\ ls.pc = "start"
    /\ LET b == LedgerSignBuild(ls.req, Return(ls.hd_path))
       IN  ls' = IF b.exc # "None"
                 THEN [ls EXCEPT !.pc = "done", !.txd = b.txd,
                                 !.ret = Raise(handle_ledger_call(b.exc))]
                 ELSE [ls EXCEPT !.pc = "loop", !.txd = b.txd,
                                 !.payload = b.dataPayload,
                                 !.dataPayload = b.dataPayload,
                                 !.p1_op = P1_FIRST_TRANS_DATA_BLOCK]
    /\ UNCHANGED <<sessionVars, callers, calls, otherVars>>

\* the chunk loop sending a chunk a second time when its exchange raised
LsExchange_RetryOnFault ==
    /\ ls.pc = "loop"
    /\ Len(ls.dataPayload) > 0
    /\ LET apdus == Append(ls.apdus, LedgerApdu(ls.p1_op, ls.dataPayload))
       IN  \/ \E fault \in LedgerFaults :
                ls' = [ls EXCEPT !.pc = "done",
                                 !.apdus = Append(apdus, LedgerApdu(ls.p1_op, ls.dataPayload)),
                                 !.ret = Raise(handle_ledger_call(fault))]
           \/ \E result \in DongleResponses :
                LET parsed == LedgerParseResult(result)
                IN  ls' = IF parsed.exc # "None"
                          THEN [ls EXCEPT !.pc = "done", !.apdus = apdus,
                                          !.dataPayload = LedgerRest(ls.dataPayload),
                                          !.p1_op = P1_SUBSEQUENT_TRANS_DATA_BLOCK,
                                          !.ret = Raise(handle_ledger_call(parsed.exc))]
                          ELSE [ls EXCEPT !.apdus = apdus,
                                          !.dataPayload = LedgerRest(ls.dataPayload),
                                          !.p1_op = P1_SUBSEQUENT_TRANS_DATA_BLOCK,
                                          !.sig = parsed.val]
    /\ UNCHANGED <<sessionVars, callers, calls, otherVars>>

\* the chunk loop without line 401: p1_op stays what it was set to before
\* the loop
LsExchange_P1NeverAdvances ==
    /\ ls.pc = "loop"
    /\ Len(ls.dataPayload) > 0
    /\ LET apdus == Append(ls.apdus, LedgerApdu(ls.p1_op, ls.dataPayload))
       IN  \/ \E fault \in LedgerFaults :
                ls' = [ls EXCEPT !.pc = "done", !.apdus = apdus,
                                 !.ret = Raise(handle_ledger_call(fault))]
           \/ \E result \in DongleResponses :
                LET parsed == LedgerParseResult(result)
                IN  ls' = IF parsed.exc # "None"
                          THEN [ls EXCEPT !.pc = "done", !.apdus = apdus,
                                          !.dataPayload = LedgerRest(ls.dataPayload),
                                          !.ret = Raise(handle_ledger_call(parsed.exc))]
                          ELSE [ls EXCEPT !.apdus = apdus,
                                          !.dataPayload = LedgerRest(ls.dataPayload),
                                          !.sig = parsed.val]
    /\ UNCHANGED <<sessionVars, callers, calls, otherVars>>

\* lines 386-405: one iteration of the chunk loop.  The exchange raises, or
\* returns a result that is then parsed.
LsExchange ==
    /\ ls.pc = "loop"
    /\ Len(ls.dataPayload) > 0
    /\ LET apdus == Append(ls.apdus, LedgerApdu(ls.p1_op, ls.dataPayload))
       IN  \/ \E fault \in LedgerFaults :
                ls' = [ls EXCEPT !.pc = "done", !.apdus = apdus,
                                 !.ret = Raise(handle_ledger_call(fault))]
           \/ \E result \in DongleResponses :
                LET parsed == LedgerParseResult(result)
                IN  ls' = IF parsed.exc # "None"
                          THEN [ls EXCEPT !.pc = "done", !.apdus = apdus,
                                          !.dataPayload = LedgerRest(ls.dataPayload),
                                          !.p1_op = P1_SUBSEQUENT_TRANS_DATA_BLOCK,
                                          !.ret = Raise(handle_ledger_call(parsed.exc))]
                          ELSE [ls EXCEPT !.apdus = apdus,
                                          !.dataPayload = LedgerRest(ls.dataPayload),
                                          !.p1_op = P1_SUBSEQUENT_TRANS_DATA_BLOCK,
                                          !.sig = parsed.val]
    /\ UNCHANGED <<sessionVars, callers, calls, otherVars>>

\* lines 407-417: the loop has ended; build the signed transaction
LsFinish ==
    /\ ls.pc = "loop"
    /\ Len(ls.dataPayload) = 0
    /\ LET f == LedgerSignFinish(ls.txd, ls.sig, ls.rlp)
       IN  ls' = [ls EXCEPT !.pc = "done",
                            !.ret = IF f.exc # "None"
                                    THEN Raise(handle_ledger_call(f.exc))
                                    ELSE f]
    /\ UNCHANGED <<sessionVars, callers, calls, otherVars>>

LsNext == LsBuild \/ LsExchange \/ LsFinish

SpecLedgerSign == LsInit /\ [][LsNext]_vars

----------------------------------------------------------------------------
(* __get_address_path called with an index, an address, both or neither on  *)
(* a constructed session of either class                                    *)

\* LedgerSigner._parse_bip32_path(offset), offset given as str(offset):
\* DERIVATION_ROOT + str(offset) is split on "/" and every element packed
\* as 4 big-endian bytes; int() of a non-numeric element raises ValueError
parse_bip32_path(offset) ==
    LET path == DERIVATION_ROOT \o offset
        elements == Split(path, "/")
    IN  IF \E i \in 1..Len(elements) : ParseInt(Split(elements[i], "'")[1]) < 0
        THEN Raise("ValueError")
        ELSE Return(Concat([i \in 1..Len(elements) |->
                              LedgerEncodeElement(elements[i])]))

\* LedgerSigner.__get_address_path(index, checksum_address)
LedgerResolvePath(cache, index, checksum_address) ==
    IF index # None /\ checksum_address # <<>>
    THEN Raise("ValueError")
    ELSE IF index # None
    THEN parse_bip32_path(IndexPathStr(index[1]))
    ELSE LedgerGetAddressPath(cache, checksum_address)

\* the number of times TrezorSigner.__get_address_path reads self.__addresses
TrezorCacheLookups(index, checksum_address) ==
    IF index # None /\ checksum_address # <<>> THEN 0
    ELSE IF index # None THEN 0
    ELSE 1

\* the number of times LedgerSigner.__get_address_path reads self.__addresses
LedgerCacheLookups(index, checksum_address) ==
    IF index # None /\ checksum_address # <<>> THEN 0
    ELSE IF index # None THEN 0
    ELSE 1

\* the arguments of the calls: index is None or an int, checksum_address is
\* None (<<>>) or an address
ResolveIndices == {None} \cup {Some(i) : i \in {0, 1, 9, 10, 255, 256, 70000}}

ResolveAddresses == {<<>>, devAddr[0], devAddr[ADDRESS_CACHE_SIZE - 1], UnknownAddress}

\* a call of TrezorSigner.__get_address_path
TrezorResolve ==
    /\ family = "trezor"
    /\ initPc = "done"
    /\ \E index \in ResolveIndices, checksum_address \in ResolveAddresses :
         rs' = [pc |-> "done", index |-> index,
                checksum_address |-> checksum_address,
                lookups |-> TrezorCacheLookups(index, checksum_address),
                ret |-> TrezorGetAddressPath(addresses, index, checksum_address)]
    /\ UNCHANGED <<sessionVars, callers, calls, ls, ud, two, laterVars>>

\* a call of LedgerSigner.__get_address_path
LedgerResolve ==
    /\ family = "ledger"
    /\ initPc = "done"
    /\ \E index \in ResolveIndices, checksum_address \in ResolveAddresses :
         rs' = [pc |-> "done", index |-> index,
                checksum_address |-> checksum_address,
                lookups |-> LedgerCacheLookups(index, checksum_address),
                ret |-> LedgerResolvePath(addresses, index, checksum_address)]
    /\ UNCHANGED <<sessionVars, callers, calls, ls, ud, two, laterVars>>

ResolveNext ==
    \/ TrezorConnect
    \/ TrezorGetDeviceId
    \/ TrezorLoadStep
    \/ LedgerInit
    \/ TrezorResolve
    \/ LedgerResolve

SpecResolve == Init /\ [][ResolveNext]_vars

----------------------------------------------------------------------------
(* Signer.from_signer_uri: the dispatch on the scheme of a signer URI       *)

LowerLetters == <<"a", "b", "c", "d", "e", "f", "g", "h", "i", "j", "k", "l", "m", "n", "o", "p", "q", "r", "s", "t", "u", "v", "w", "x", "y", "z">>

UpperLetters == <<"A", "B", "C", "D", "E", "F", "G", "H", "I", "J", "K", "L", "M", "N", "O", "P", "Q", "R", "S", "T", "U", "V", "W", "X", "Y", "Z">>

\* urllib.parse.scheme_chars
IsSchemeChar(c) ==
    \/ \E i \in 1..26 : LowerLetters[i] = c \/ UpperLetters[i] = c
    \/ IsDigit(c)
    \/ c \in {"+", "-", "."}

\* str.lower() of one character
ToLower(c) ==
    IF \E i \in 1..26 : UpperLetters[i] = c
    THEN LowerLetters[CHOOSE i \in 1..26 : UpperLetters[i] = c]
    ELSE c

\* s.find(ch): the 0-based position of the first ch, -1 if there is none
Find(s, ch) ==
    IF \E i \in 1..Len(s) : s[i] = ch
    THEN (CHOOSE i \in 1..Len(s) : s[i] = ch /\ \A k \in 1..(i - 1) : s[k] # ch) - 1
    ELSE -1

\* urllib.parse.urlparse(url) for a url without '?', '#' and ';': the
\* characters before the first ':' are the scheme, lowercased, when all of
\* them are scheme characters; a rest starting with '//' gives the netloc
\* up to the next '/'; what remains is the path
urlparse(url) ==
    LET i == Find(url, ":")
        hasScheme == i > 0 /\ \A k \in 1..i : IsSchemeChar(url[k])
        rest == IF hasScheme THEN SubSeq(url, i + 2, Len(url)) ELSE url
        hasNetloc == Len(rest) >= 2 /\ rest[1] = "/" /\ rest[2] = "/"
        after == SubSeq(rest, 3, Len(rest))
        delim == IF Find(after, "/") < 0 THEN Len(after) ELSE Find(after, "/")
    IN  [scheme |-> IF hasScheme THEN [k \in 1..i |-> ToLower(url[k])] ELSE <<>>,
         netloc |-> IF hasNetloc THEN SubSeq(after, 1, delim) ELSE <<>>,
         path |-> IF hasNetloc THEN SubSeq(after, delim + 1, Len(after)) ELSE rest]

\* the scheme alone, without the fallback to the path
SignerUriKey_SchemeOnly(parsed) == parsed.scheme

\* line 57: scheme = parsed.scheme if parsed.scheme else parsed.path
SignerUriKey(parsed) ==
    IF parsed.scheme # <<>> THEN parsed.scheme ELSE parsed.path

\* TrezorSigner.uri_scheme()
TrezorUriScheme == <<"t", "r", "e", "z", "o", "r">>

\* LedgerSigner.uri_scheme()
LedgerUriScheme == <<"l", "e", "d", "g", "e", "r">>

\* Signer._SIGNERS, set in the package's __init__: the session classes by
\* their uri_scheme()
SIGNERS ==
    { <<TrezorUriScheme, "TrezorSigner">>, <<LedgerUriScheme, "LedgerSigner">> }

Registered(scheme) == \E e \in SIGNERS : e[1] = scheme

SignerClass(scheme) == (CHOOSE e \in SIGNERS : e[1] = scheme)[2]

\* what Web3Signer.from_signer_uri does with a URI: it returns a signer, or
\* raises InvalidSignerURI, or raises another error
PassThroughOutcomes == {"ok", "InvalidSignerURI", "ConnectionError"}

\* the URIs callers pass
SignerUris ==
    { <<"t", "r", "e", "z", "o", "r">>,
      <<"t", "r", "e", "z", "o", "r", ":", "/", "/">>,
      <<"t", "r", "e", "z", "o", "r", ":">>,
      <<"T", "r", "e", "z", "o", "r", ":", "/", "/">>,
      <<"t", "r", "e", "z", "o", "r", ":", "/", "/", "/", "m", "y", "/", "t", "r", "e", "z", "o", "r", "/", "p", "a", "t", "h">>,
      <<"l", "e", "d", "g", "e", "r">>,
      <<"l", "e", "d", "g", "e", "r", ":", "/", "/">>,
      <<"c", "l", "e", "f">>,
      <<"h", "t", "t", "p", ":", "/", "/", "l", "o", "c", "a", "l", "h", "o", "s", "t", "/", "r", "p", "c">>,
      <<"/", "h", "o", "m", "e", "/", "k", "e", "y", "s", "t", "o", "r", "e">>,
      <<>> }

\* Signer.from_signer_uri lines 56-69: the key is looked up; for an
\* unregistered key the pass-through is tried and its InvalidSignerURI
\* re-raised; for a registered key line 70 calls the class (next actions)
FromSignerUriCall ==
    /\ ud.pc = "idle"
    /\ family = "none"
    /\ \E uri \in SignerUris :
         LET scheme == SignerUriKey(urlparse(uri))
         IN  IF Registered(scheme)
             THEN ud' = [ud EXCEPT !.pc = "class", !.uri = uri, !.key = scheme,
                                   !.cls = SignerClass(scheme)]
             ELSE \E out \in PassThroughOutcomes :
                    ud' = [ud EXCEPT !.pc = "done", !.uri = uri, !.key = scheme,
                                     !.cls = "Web3Signer", !.passthrough = out,
                                     !.ret = IF out = "ok" THEN Return("Web3Signer")
                                             ELSE Raise(out)]
    /\ UNCHANGED <<sessionVars, callers, calls, ls, rs, two, laterVars>>

\* TrezorSigner.from_signer_uri: the whole uri is compared with the scheme,
\* then cls() starts the constructor
TrezorFromSignerUri ==
    /\ ud.pc = "class"
    /\ ud.cls = "TrezorSigner"
    /\ IF ud.uri # TrezorUriScheme
       THEN /\ ud' = [ud EXCEPT !.pc = "done", !.ret = Raise("InvalidSignerURI")]
            /\ family' = family
       ELSE /\ ud' = [ud EXCEPT !.pc = "construct"]
            /\ family' = "trezor"
    /\ UNCHANGED <<devAddr, initPc, handle, deviceId, addresses, loadIndex,
                   initError, wire, callers, calls, ls, rs, two, laterVars>>

\* LedgerSigner defines no from_signer_uri: line 70 calls the inherited
\* Signer.from_signer_uri with cls = LedgerSigner, which looks the same key
\* up and calls itself again until the interpreter's recursion limit
LedgerFromSignerUri ==
    /\ ud.pc = "class"
    /\ ud.cls = "LedgerSigner"
    /\ ud' = [ud EXCEPT !.pc = "done", !.ret = Raise("RecursionError")]
    /\ UNCHANGED <<sessionVars, callers, calls, ls, rs, two, laterVars>>

\* lines 70-71: the constructor has returned or raised
FromSignerUriReturn ==
    /\ ud.pc = "construct"
    /\ initPc \in {"done", "raised"}
    /\ ud' = [ud EXCEPT !.pc = "done",
                        !.ret = IF initPc = "done" THEN Return(ud.cls)
                                ELSE Raise(initError)]
    /\ UNCHANGED <<sessionVars, callers, calls, ls, rs, two, laterVars>>

UriInit ==
    /\ family = "none"
    /\ devAddr \in DeviceSeeds
    /\ initPc = "new"
    /\ handle = "None"
    /\ deviceId = "None"
    /\ addresses = Unset
    /\ loadIndex = 0
    /\ initError = "None"
    /\ wire = <<>>
    /\ callers = [c \in Callers |-> IdleCaller]
    /\ calls = 0
    /\ ls = LsIdle
    /\ rs = RsIdle
    /\ ud = UdIdle
    /\ two = TwoIdle
    /\ re = ReIdle
    /\ mw = MwIdle

UriNext ==
    \/ FromSignerUriCall
    \/ TrezorFromSignerUri
    \/ LedgerFromSignerUri
    \/ TrezorConnect
    \/ TrezorGetDeviceId
    \/ TrezorLoadStep
    \/ FromSignerUriReturn

SpecUri == UriInit /\ [][UriNext]_vars

----------------------------------------------------------------------------
(* Two sessions in one process, each on its own device.  LedgerSigner.open  *)
(* is a classmethod: _driver is an attribute of the class, read by every    *)
(* LedgerSigner instance.  Objects the libraries return are numbered; 0 is  *)
(* None, or for the class attribute, not set.                               *)

MaxSessionOps == 4

Sessions == 1..2

\* the addresses device i derives
TwoDevice(i) == [k \in Indices |-> AddrOf(16 * i + k)]

\* TrezorSigner.__load_addresses run to the end against a device: the cache
RECURSIVE TrezorLoadUpTo(_, _)
TrezorLoadUpTo(dev, n) ==
    IF n = 0 THEN <<>>
    ELSE DictSet(TrezorLoadUpTo(dev, n - 1), dev[n - 1],
                 TrezorGetAddressPath(Attr(<<>>), Some(n - 1), <<>>).val)

\* the exceptions that can leave TrezorSigner.__init__
TrezorInitErrors ==
    {"NoDeviceDetected"} \cup TrezorFaults \cup {handle_trezor_call(f) : f \in TrezorFaults}

\* a session object that is not constructed yet
NewSession(fam) ==
    [family |-> fam, state |-> "none", handle |-> 0, addresses |-> Unset]

\* the result of an operation of session i is recorded with the actor
TwoStep(i, sess, driver, created, ret) ==
    [two EXCEPT !.sess = sess, !.driver = driver, !.fresh = two.fresh + created,
                !.ops = two.ops + 1, !.actor = i, !.ret = ret]

\* TrezorSigner() / LedgerSigner() for session i
TwoConstruct(i) ==
    /\ two.pc = "on"
    /\ two.ops < MaxSessionOps
    /\ two.sess[i].state = "none"
    /\ IF two.sess[i].family = "trezor"
       THEN \/ two' = TwoStep(i, [two.sess EXCEPT ![i] =
                                    [@ EXCEPT !.state = "ready",
                                              !.handle = two.fresh + 1,
                                              !.addresses = Attr(TrezorLoadUpTo(TwoDevice(i),
                                                                 ADDRESS_CACHE_SIZE))]],
                              two.driver, 1, Return(<<>>))
            \/ \E e \in TrezorInitErrors :
                 two' = TwoStep(i, [two.sess EXCEPT ![i] = [@ EXCEPT !.state = "failed"]],
                                two.driver, 0, Raise(e))
       ELSE \/ two' = TwoStep(i, [two.sess EXCEPT ![i] =
                                    [@ EXCEPT !.state = "ready",
                                              !.handle = two.fresh + 1]],
                              two.driver, 1, Return(<<>>))
            \/ \E fault \in LedgerFaults :
                 two' = TwoStep(i, [two.sess EXCEPT ![i] = [@ EXCEPT !.state = "failed"]],
                                two.driver, 0, Raise(handle_ledger_call(fault)))
    /\ UNCHANGED <<sessionVars, callers, calls, ls, rs, ud, laterVars>>

\* LedgerSigner.open called on session i: cls._driver = getDongle(False),
\* then the manufacturer and product strings are read from it
TwoOpen(i) ==
    /\ two.pc = "on"
    /\ two.ops < MaxSessionOps
    /\ two.sess[i].state = "ready"
    /\ two.sess[i].family = "ledger"
    /\ \/ two' = TwoStep(i, two.sess, two.fresh + 1, 1, Return(<<>>))
       \/ \E fault \in LedgerFaults :
            \/ two' = TwoStep(i, two.sess, two.driver, 0,
                              Raise(handle_ledger_call(fault)))
            \/ two' = TwoStep(i, two.sess, two.fresh + 1, 1,
                              Raise(handle_ledger_call(fault)))
    /\ UNCHANGED <<sessionVars, callers, calls, ls, rs, ud, laterVars>>

\* LedgerSigner.close on session i
TwoClose(i) ==
    /\ two.pc = "on"
    /\ two.ops < MaxSessionOps
    /\ two.sess[i].state = "ready"
    /\ two.sess[i].family = "ledger"
    /\ IF two.sess[i].handle = 0
       THEN two' = TwoStep(i, two.sess, two.driver, 0,
                           Raise(handle_ledger_call("AttributeError")))
       ELSE \/ two' = TwoStep(i, [two.sess EXCEPT ![i] = [@ EXCEPT !.handle = 0]],
                              two.driver, 0, Return(<<>>))
            \/ \E fault \in LedgerFaults :
                 two' = TwoStep(i, two.sess, two.driver, 0,
                                Raise(handle_ledger_call(fault)))
    /\ UNCHANGED <<sessionVars, callers, calls, ls, rs, ud, laterVars>>

\* accounts of session i
TwoAccounts(i) ==
    /\ two.pc = "on"
    /\ two.ops < MaxSessionOps
    /\ two.sess[i].state = "ready"
    /\ two' = TwoStep(i, two.sess, two.driver, 0,
                      IF two.sess[i].family = "trezor"
                      THEN Return(DictKeys(two.sess[i].addresses.items))
                      ELSE Raise("AttributeError"))
    /\ UNCHANGED <<sessionVars, callers, calls, ls, rs, ud, laterVars>>

\* the transaction dicts given to session i: from its own device's first
\* address, with and without chainId
TwoTxRequests(i) ==
    LET t == [Tx(TwoDevice(i)[0], <<"0", "x">>) EXCEPT !.to = TwoDevice(i)[1]]
    IN  {t, DictDel(t, "chainId")}

\* sign_transaction of session i, from the call to its return
TwoSignTransaction(i) ==
    /\ two.pc = "on"
    /\ two.ops < MaxSessionOps
    /\ two.sess[i].state = "ready"
    /\ \E transaction_dict \in TwoTxRequests(i) :
         IF two.sess[i].family = "trezor"
         THEN LET p == TrezorSignPrepare(two.sess[i].addresses, transaction_dict)
              IN  IF p.exc # "None"
                  THEN two' = TwoStep(i, two.sess, two.driver, 0, Raise(p.exc))
                  ELSE \/ \E sig \in DeviceSigs :
                            two' = TwoStep(i, two.sess, two.driver, 0,
                                           TrezorSignFinish(p.txd, p.sender, sig, TRUE).ret)
                       \/ \E fault \in TrezorFaults :
                            two' = TwoStep(i, two.sess, two.driver, 0,
                                           Raise(handle_trezor_call(fault)))
         ELSE LET b == LedgerSignBuild(transaction_dict,
                          LedgerGetAddressPath(two.sess[i].addresses,
                                               transaction_dict["from"]))
              IN  /\ b.exc # "None"
                  /\ two' = TwoStep(i, two.sess, two.driver, 0,
                                    Raise(handle_ledger_call(b.exc)))
    /\ UNCHANGED <<sessionVars, callers, calls, ls, rs, ud, laterVars>>

TwoInit ==
    /\ family = "none"
    /\ devAddr = TwoDevice(1)
    /\ initPc = "new"
    /\ handle = "None"
    /\ deviceId = "None"
    /\ addresses = Unset
    /\ loadIndex = 0
    /\ initError = "None"
    /\ wire = <<>>
    /\ callers = [c \in Callers |-> IdleCaller]
    /\ calls = 0
    /\ ls = LsIdle
    /\ rs = RsIdle
    /\ ud = UdIdle
    /\ \E f1, f2 \in {"trezor", "ledger"} :
         two = [TwoIdle EXCEPT !.pc = "on",
                               !.sess = <<NewSession(f1), NewSession(f2)>>]
    /\ re = ReIdle
    /\ mw = MwIdle

TwoNext ==
    \/ \E i \in Sessions : TwoConstruct(i)
    \/ \E i \in Sessions : TwoOpen(i)
    \/ \E i \in Sessions : TwoClose(i)
    \/ \E i \in Sessions : TwoAccounts(i)
    \/ \E i \in Sessions : TwoSignTransaction(i)

SpecTwo == TwoInit /\ [][TwoNext]_vars

----------------------------------------------------------------------------
(* A session opened again on the same device: a second TrezorSigner() or    *)
(* LedgerSigner() is constructed after the first one returned.  The device  *)
(* (devAddr) and its log of requests (wire) stay; the new object starts     *)
(* without attributes.                                                      *)

\* what the accounts property of the constructed session returns
AccountsResult ==
    IF family = "trezor" THEN Return(DictKeys(addresses.items))
    ELSE Raise("AttributeError")

Reopen ==
    /\ initPc = "done"
    /\ re.n = 0
    /\ re' = [n |-> 1, addresses |-> addresses, accounts |-> AccountsResult]
    /\ initPc' = "new"
    /\ handle' = "None"
    /\ deviceId' = "None"
    /\ addresses' = Unset
    /\ loadIndex' = 0
    /\ initError' = "None"
    /\ UNCHANGED <<family, devAddr, wire, callers, calls, ls, rs, ud, two, mw>>

ReopenNext ==
    \/ TrezorConnect
    \/ TrezorGetDeviceId
    \/ TrezorLoadStep
    \/ LedgerInit
    \/ Reopen

SpecReopen == Init /\ [][ReopenNext]_vars

----------------------------------------------------------------------------
(* construct_signer_middleware (middleware.py) around a constructed session *)

\* web3's to_hex of an int: hex(n)
RECURSIVE HexStrAcc(_)
HexStrAcc(n) ==
    IF n = 0 THEN <<>> ELSE HexStrAcc(n \div 16) \o <<HexDigits[(n % 16) + 1]>>

to_hex(n) == <<"0", "x">> \o (IF n = 0 THEN <<"0">> ELSE HexStrAcc(n))

InSeq(x, s) == \E i \in 1..Len(s) : s[i] = x

\* eth_utils is_binary_address: bytes of the length of an address.  An
\* address of this model is one byte, written "0x" and two hex digits.
is_binary_address(value) == Len(value) = Len(HexToBytes(AddrOf(0)))

\* eth_utils is_hex_address on a str
is_hex_address(value) == Len(value) = Len(AddrOf(0))

\* web3's abi_address_to_hex normalizer: validate_address, then the
\* checksum str of a binary address
abi_address_to_hex(data) ==
    IF is_binary_address(data) THEN Return(BytesToHex(data))
    ELSE IF is_hex_address(data) THEN Return(data)
    ELSE Raise("InvalidAddress")

\* what the calls fill_nonce and fill_transaction_defaults make on w3 answer
W3Faults == {"ValueError"}

W3Answers ==
    [getTransactionCount : {Return(7)} \cup {Raise(e) : e \in W3Faults},
     estimateGas : {Return(53000)} \cup {Raise(e) : e \in W3Faults},
     gasPrice : {Return(2000000000)},
     chainId : {Return(1)}]

\* web3._utils.transactions.fill_nonce, curried with w3 (line 20).  A
\* result carries the calls made on w3.
fill_nonce(w3, transaction) ==
    IF "from" \in DOMAIN transaction /\ "nonce" \notin DOMAIN transaction
    THEN LET count == IF abi_address_to_hex(transaction["from"]).exc # "None"
                      THEN abi_address_to_hex(transaction["from"])
                      ELSE w3.getTransactionCount
         IN  [exc |-> count.exc,
              val |-> IF count.exc = "None"
                      THEN DictPut(transaction, "nonce", count.val)
                      ELSE transaction,
              calls |-> <<"getTransactionCount">>]
    ELSE [exc |-> "None", val |-> transaction, calls |-> <<>>]

\* web3's TRANSACTION_DEFAULTS, in the order of the dict
TRANSACTION_DEFAULTS == <<"value", "data", "gas", "gasPrice", "chainId">>

\* the defaults that are calls on w3
DefaultGetters == {"gas", "gasPrice", "chainId"}

\* the default of one key
DefaultOf(w3, key) ==
    CASE key = "value" -> Return(0)
      [] key = "data" -> Return(<<>>)
      [] key = "gas" -> w3.estimateGas
      [] key = "gasPrice" -> w3.gasPrice
      [] key = "chainId" -> w3.chainId

\* the loop of fill_transaction_defaults over the first k keys
RECURSIVE FillDefaultsUpTo(_, _, _)
FillDefaultsUpTo(w3, transaction, k) ==
    IF k = 0 THEN [exc |-> "None", val |-> EmptyDict, calls |-> <<>>]
    ELSE LET before == FillDefaultsUpTo(w3, transaction, k - 1)
             key == TRANSACTION_DEFAULTS[k]
             default == DefaultOf(w3, key)
             made == IF key \in DefaultGetters
                     THEN Append(before.calls, key) ELSE before.calls
         IN  IF before.exc # "None" \/ key \in DOMAIN transaction THEN before
             ELSE IF default.exc # "None"
             THEN [exc |-> default.exc, val |-> before.val, calls |-> made]
             ELSE [exc |-> "None", val |-> DictPut(before.val, key, default.val),
                   calls |-> made]

\* cytoolz merge(defaults, transaction): the transaction's values win
Merge(defaults, transaction) ==
    [k \in DOMAIN defaults \cup DOMAIN transaction |->
        IF k \in DOMAIN transaction THEN transaction[k] ELSE defaults[k]]

\* web3._utils.transactions.fill_transaction_defaults, curried with w3
\* (line 19)
fill_transaction_defaults(w3, transaction) ==
    LET defaults == FillDefaultsUpTo(w3, transaction, Len(TRANSACTION_DEFAULTS))
    IN  [exc |-> defaults.exc,
         val |-> IF defaults.exc = "None"
                 THEN Merge(defaults.val, transaction) ELSE transaction,
         calls |-> defaults.calls]

\* the keys of web3's TRANSACTION_PARAMS_ABIS by ABI type
UintParams == {"gas", "gasPrice", "nonce", "value"}
AddressParams == {"from", "to"}

\* one value as web3.middleware.signing.format_transaction leaves it: uints
\* as hex strs, bytes data as a hex str, addresses validated and binary
\* ones as checksum strs.  The ints and the data of a request are given as
\* int and as hex str; data is bytes only as the default b''.
FormatValue(key, value) ==
    IF key \in UintParams THEN Return(to_hex(value))
    ELSE IF key \in AddressParams THEN abi_address_to_hex(value)
    ELSE IF key = "data" THEN Return(IF value = <<>> THEN BytesToHex(<<>>) ELSE value)
    ELSE Return(value)

\* web3.middleware.signing.format_transaction (line 18)
format_transaction(transaction) ==
    IF \E k \in DOMAIN transaction : FormatValue(k, transaction[k]).exc # "None"
    THEN Raise("InvalidAddress")
    ELSE Return([k \in DOMAIN transaction |-> FormatValue(k, transaction[k]).val])

\* lines 17-21: compose applies its last function first
format_and_fill_tx(w3, transaction) ==
    LET nonced == fill_nonce(w3, transaction)
        filled == fill_transaction_defaults(w3, nonced.val)
        formatted == format_transaction(filled.val)
    IN  IF nonced.exc # "None"
        THEN [exc |-> nonced.exc, val |-> EmptyDict, calls |-> nonced.calls]
        ELSE IF filled.exc # "None"
        THEN [exc |-> filled.exc, val |-> EmptyDict,
              calls |-> nonced.calls \o filled.calls]
        ELSE [exc |-> formatted.exc,
              val |-> IF formatted.exc = "None" THEN formatted.val ELSE EmptyDict,
              calls |-> nonced.calls \o filled.calls]

\* the disqualification that only asks for a `from`
Disqualified_MissingFromOnly(transaction, accounts) ==
    "from" \notin DOMAIN transaction

\* lines 33-36: the request is not for this signer
Disqualified(transaction, accounts) ==
    \/ "from" \notin DOMAIN transaction
    \/ ~InSeq(transaction["from"], accounts)

\* the transactions of eth_sendTransaction requests: `from` absent, a
\* cached account as str or as bytes, an address the signer does not hold,
\* a str that is no address; nonce, gas and data given or not
MwTransactions ==
    LET base == [to |-> devAddr[1], value |-> 100, gasPrice |-> 1000000000,
                 chainId |-> 1]
        froms == {devAddr[0], HexToBytes(devAddr[0]), UnknownAddress,
                  <<"0", "x", "1">>}
        WithFrom == {base} \cup {DictPut(base, "from", f) : f \in froms}
        WithNonce == WithFrom \cup {DictPut(t, "nonce", 5) : t \in WithFrom}
        WithGas == WithNonce \cup {DictPut(t, "gas", 21000) : t \in WithNonce}
    IN  WithGas \cup {DictPut(t, "data", <<"0", "x">>) : t \in WithGas}

\* the requests that reach the middleware: method and params
MwRequests ==
    {[method |-> "eth_sendTransaction", params |-> <<t>>] : t \in MwTransactions}
      \cup {[method |-> "eth_getBalance", params |-> <<devAddr[0], "latest">>],
            [method |-> "eth_call", params |-> <<[to |-> devAddr[1]], "latest">>],
            [method |-> "eth_sendRawTransaction", params |-> << <<1, 2>> >>]}

\* what make_request does: an RPC response with a result or with an error,
\* or the provider raises
MakeRequestOutcomes == {Return("result"), Return("error"), Raise("ConnectionError")}

\* the raw transaction signer.sign_transaction returns
RawTxs == {<<248, 1>>}

\* what signer.sign_transaction does with the transaction
SignOutcomes ==
    {Return(raw) : raw \in RawTxs}
        \cup {Raise("SignerError"), Raise("NoDeviceDetected"), Raise("TypeError")}

\* a session as its constructor leaves it, and no middleware around it yet
MwInit ==
    /\ family \in {"trezor", "ledger"}
    /\ devAddr \in DeviceSeeds
    /\ initPc = "done"
    /\ handle = (IF family = "trezor" THEN "client" ELSE "dongle")
    /\ deviceId = (IF family = "trezor" THEN "device-id" ELSE "None")
    /\ addresses = (IF family = "trezor"
                    THEN Attr(TrezorLoadUpTo(devAddr, ADDRESS_CACHE_SIZE))
                    ELSE Unset)
    /\ loadIndex = (IF family = "trezor" THEN ADDRESS_CACHE_SIZE ELSE 0)
    /\ initError = "None"
    /\ wire = (IF family = "trezor"
               THEN [i \in 1..ADDRESS_CACHE_SIZE |->
                        [op |-> "get_address",
                         n |-> TrezorGetAddressArgs(Attr(<<>>), Some(i - 1), <<>>).val,
                         show_display |-> FALSE, raised |-> "ok"]]
               ELSE <<>>)
    /\ callers = [c \in Callers |-> IdleCaller]
    /\ calls = 0
    /\ ls = LsIdle
    /\ rs = RsIdle
    /\ ud = UdIdle
    /\ two = TwoIdle
    /\ re = ReIdle
    /\ mw = MwIdle

\* lines 10-12 and 45: construct_signer_middleware(signer) reads
\* signer.accounts once
MwConstruct ==
    /\ mw.pc = "off"
    /\ mw' = IF AccountsResult.exc # "None"
             THEN [mw EXCEPT !.pc = "raised", !.ret = AccountsResult]
             ELSE [mw EXCEPT !.pc = "ready", !.accounts = AccountsResult.val]
    /\ UNCHANGED <<sessionVars, callers, calls, ls, rs, ud, two, re>>

\* lines 23-39: middleware(method, params) up to the call of
\* signer.sign_transaction, or to its return when it does not sign
MwCall ==
    /\ mw.pc = "ready"
    /\ \E request \in MwRequests, w3 \in W3Answers, response \in MakeRequestOutcomes :
         LET forward == [mw EXCEPT !.method = request.method,
                                   !.params = request.params,
                                   !.filled = FALSE,
                                   !.transaction = EmptyDict,
                                   !.w3calls = <<>>,
                                   !.signed = <<>>,
                                   !.signRet = Return(<<>>),
                                   !.sent = <<request>>,
                                   !.ret = response]
             tx == format_and_fill_tx(w3, request.params[1])
         IN  mw' =
               IF request.method # "eth_sendTransaction" THEN forward
               ELSE IF tx.exc # "None"
               THEN [forward EXCEPT !.w3calls = tx.calls, !.sent = <<>>,
                                    !.ret = Raise(tx.exc)]
               ELSE IF Disqualified(tx.val, mw.accounts)
               THEN [forward EXCEPT !.filled = TRUE, !.transaction = tx.val,
                                    !.w3calls = tx.calls]
               ELSE [forward EXCEPT !.pc = "sign", !.filled = TRUE,
                                    !.transaction = tx.val,
                                    !.w3calls = tx.calls,
                                    !.signed = <<tx.val>>,
                                    !.sent = <<>>,
                                    !.ret = Return(<<>>)]
    /\ UNCHANGED <<sessionVars, callers, calls, ls, rs, ud, two, re>>

\* the middleware forwarding the original request when signing raised
MwSignReturn_ForwardsOnRaise ==
    /\ mw.pc = "sign"
    /\ \E signed \in SignOutcomes, response \in MakeRequestOutcomes :
         mw' = IF signed.exc # "None"
               THEN [mw EXCEPT !.pc = "ready", !.signRet = signed,
                               !.sent = <<[method |-> mw.method,
                                           params |-> mw.params]>>,
                               !.ret = response]
               ELSE [mw EXCEPT !.pc = "ready", !.signRet = signed,
                               !.sent = <<[method |-> "eth_sendRawTransaction",
                                           params |-> <<signed.val>>]>>,
                               !.ret = response]
    /\ UNCHANGED <<sessionVars, callers, calls, ls, rs, ud, two, re>>

\* lines 39-41: from the return of signer.sign_transaction on
MwSignReturn ==
    /\ mw.pc = "sign"
    /\ \E signed \in SignOutcomes, response \in MakeRequestOutcomes :
         mw' = IF signed.exc # "None"
               THEN [mw EXCEPT !.pc = "ready", !.signRet = signed,
                               !.ret = signed]
               ELSE [mw EXCEPT !.pc = "ready", !.signRet = signed,
                               !.sent = <<[method |-> "eth_sendRawTransaction",
                                           params |-> <<signed.val>>]>>,
                               !.ret = response]
    /\ UNCHANGED <<sessionVars, callers, calls, ls, rs, ud, two, re>>

MwNext == MwConstruct \/ MwCall \/ MwSignReturn

SpecMiddleware == MwInit /\ [][MwNext]_vars

----------------------------------------------------------------------------
(* Claims *)

SignTxCalls == {c \in Callers : callers[c].op = "sign_transaction"}

\* C1: sign_transaction on a Ready session of either family with a dict that
\* has no chainId key raises SignerError, and the call has issued no device
\* request when it raises.
C1_NoChainIdRaisesSignerError ==
    \A c \in SignTxCalls :
        "chainId" \notin DOMAIN callers[c].req =>
            /\ callers[c].pc = "done"
            /\ callers[c].ret.exc \in SignerErrorKinds
            /\ callers[c].sent = <<>>

CeilDiv(a, b) == (a + b - 1) \div b

\* C2: a Ledger data payload of length L >= 1 is sent in exactly ceil(L/255)
\* exchanges: never more, every exchange carries data, and when the whole
\* payload has been handed to the dongle exactly ceil(L/255) exchanges were
\* made (one for 255 bytes, two for 256).
C2_ChunkCount ==
    ls.pc \in {"loop", "done"} /\ ls.payload # <<>> =>
        /\ Len(ls.apdus) <= CeilDiv(Len(ls.payload), 255)
        /\ \A i \in 1..Len(ls.apdus) : Len(ls.apdus[i]) > 5
        /\ (ls.dataPayload = <<>> =>
              Len(ls.apdus) = CeilDiv(Len(ls.payload), 255))
        /\ (ls.dataPayload = <<>> /\ Len(ls.payload) = 255 => Len(ls.apdus) = 1)
        /\ (ls.dataPayload = <<>> /\ Len(ls.payload) = 256 => Len(ls.apdus) = 2)

C2_Witness ==
    /\ Len(ls.payload) = 255
    /\ ls.dataPayload = <<>>
    /\ Len(ls.apdus) = 1

\* C3: operations on one session are mutually exclusive: at most one caller
\* is inside a device exchange of the session at any time.
C3_MutualExclusion ==
    Cardinality({c \in Callers : callers[c].pc = "device"}) <= 1

\* the signed transaction a successful sign_transaction returned, decoded
\* from RLP when it was returned encoded
DecodedTx(c) ==
    IF callers[c].rlp
    THEN LET it == RlpDecodeList(callers[c].ret.val)
         IN  [nonce |-> BytesToInt(it[1]), gasPrice |-> BytesToInt(it[2]),
              gas |-> BytesToInt(it[3]), to |-> it[4], value |-> BytesToInt(it[5]),
              data |-> it[6], v |-> BytesToInt(it[7]), r |-> BytesToInt(it[8]),
              s |-> BytesToInt(it[9])]
    ELSE callers[c].ret.val

\* C4: the signed transaction sign_transaction returns carries the request's
\* nonce, gasPrice, gas, to, value and data, and the device's (v, r, s); in
\* particular its `to` field is the request's recipient.
C4_RoundTrip ==
    \A c \in SignTxCalls :
        callers[c].pc = "done" /\ callers[c].ret.exc = "None" =>
            LET t == DecodedTx(c)
                q == callers[c].req
            IN  /\ t.nonce = q.nonce
                /\ t.gasPrice = q.gasPrice
                /\ t.gas = q.gas
                /\ t.value = q.value
                /\ t.data = HexToBytes(q.data)
                /\ \E sig \in DeviceSigs :
                     /\ t.v = sig.v
                     /\ t.r = BytesToInt(sig.r)
                     /\ t.s = BytesToInt(sig.s)
                /\ t.to = to_canonical_address(q.to)

Cached(address) == addresses.set /\ DictHas(addresses.items, address)

\* C5: sign_transaction and sign_message with a sender address that is not in
\* the address cache fail with a SignerError kind, and no signing request was
\* issued to the device.
C5_UnknownAddressIsSignerError ==
    \A c \in Callers :
        /\ callers[c].op \in {"sign_transaction", "sign_message"}
        /\ callers[c].sender # <<>>
        /\ ~Cached(callers[c].sender)
        /\ (callers[c].op = "sign_transaction" =>
              /\ "chainId" \in DOMAIN callers[c].req
              /\ assert_valid_fields(DictDel(callers[c].req, "from")) = "None")
        => /\ callers[c].pc = "done"
           /\ callers[c].ret.exc \in SignerErrorKinds
           /\ callers[c].sent = <<>>

RawTransportExceptions ==
    {"USBErrorNoDevice", "USBErrorBusy", "TransportException", "OSError", "CommException"}

\* C6: no raw transport exception leaves a session: neither the constructor
\* nor any operation surfaces an exception of the transport libraries.
C6_NoRawTransportException ==
    /\ initError \notin RawTransportExceptions
    /\ \A c \in Callers : callers[c].ret.exc \notin RawTransportExceptions

NoSessionReturned == calls = 0 /\ \A c \in Callers : callers[c] = IdleCaller

FailedAtOpen == initPc = "raised" /\ handle = "None"

FailedAtPopulation == initPc = "raised" /\ addresses.set

\* C7 as stated: when the transport open or a step of the cache population
\* fails, the error surfaced is NoDeviceDetected and no session is returned.
C7_Original ==
    FailedAtOpen \/ FailedAtPopulation =>
        initError = "NoDeviceDetected" /\ NoSessionReturned

\* C7 as amended: a failed transport open surfaces NoDeviceDetected; a failed
\* step of the cache population surfaces NoDeviceDetected when the device was
\* disconnected and DeviceError when the device was busy; in each case no
\* session is returned, and a Trezor session that is returned has had every
\* index of the cache answered by the device.
C7_OpenFailure ==
    /\ FailedAtOpen => initError = "NoDeviceDetected"
    /\ FailedAtPopulation =>
         \/ wire[Len(wire)].raised = "USBErrorNoDevice" /\ initError = "NoDeviceDetected"
         \/ wire[Len(wire)].raised = "USBErrorBusy" /\ initError = "DeviceError"
    /\ initPc = "raised" => SessionState = "Disconnected" /\ NoSessionReturned
    /\ family = "trezor" /\ ~NoSessionReturned =>
         /\ Len(wire) = ADDRESS_CACHE_SIZE
         /\ \A i \in 1..Len(wire) : wire[i].raised = "ok"

C7_Witness ==
    /\ FailedAtPopulation
    /\ loadIndex > 0
    /\ wire[Len(wire)].raised = "USBErrorBusy"
    /\ initError = "DeviceError"

Injective(f) == \A i, j \in DOMAIN f : i # j => f[i] # f[j]

\* the path 44'/60'/0'/0/i
RootPath(i) ==
    <<PackU32(44, TRUE), PackU32(60, TRUE), PackU32(0, TRUE), PackU32(0, FALSE),
      PackU32(i, FALSE)>>

\* C8: after a Trezor session was opened against a device with pairwise
\* distinct addresses, the cache holds exactly ADDRESS_CACHE_SIZE entries,
\* entry i maps the device's address for index i to the path
\* DERIVATION_ROOT/i, the addresses were requested in ascending index order
\* without display, and accounts returns them in index order.
C8_CachePopulated ==
    family = "trezor" /\ initPc = "done" /\ Injective(devAddr) =>
        /\ Len(addresses.items) = ADDRESS_CACHE_SIZE
        /\ \A i \in Indices : addresses.items[i + 1] = <<devAddr[i], RootPath(i)>>
        /\ wire = [k \in 1..ADDRESS_CACHE_SIZE |->
                     [op |-> "get_address", n |-> RootPath(k - 1),
                      show_display |-> FALSE, raised |-> "ok"]]
        /\ \A c \in Callers :
             callers[c].op = "accounts" =>
                 /\ callers[c].ret.exc = "None"
                 /\ callers[c].ret.val = [k \in 1..ADDRESS_CACHE_SIZE |-> devAddr[k - 1]]

C8_Witness ==
    /\ family = "trezor"
    /\ initPc = "done"
    /\ Injective(devAddr)
    /\ \E c \in Callers : callers[c].op = "accounts" /\ callers[c].pc = "done"

\* C9: the address cache is write-once: once the constructor has completed,
\* no step of any operation changes the cache.
C9_CacheWriteOnce == [][initPc = "done" => addresses' = addresses]_vars

C9_Witness ==
    /\ family = "trezor"
    /\ initPc = "done"
    /\ Len(addresses.items) >= ADDRESS_CACHE_SIZE - 1
    /\ \E c \in SignTxCalls : callers[c].pc = "done" /\ callers[c].ret.exc = "None"
    /\ \E c \in Callers : callers[c].op \in {"lock_account", "unlock_account", "accounts"}

\* C10: accounts, sign_message and sign_transaction are served only in Ready,
\* that is after the transport was opened and the address cache was populated.
C10_ServedOnlyWhenReady ==
    \A c \in Callers :
        callers[c].op \in {"accounts", "sign_message", "sign_transaction"} =>
            /\ initPc = "done"
            /\ addresses.set
            /\ Len(wire) = ADDRESS_CACHE_SIZE

----------------------------------------------------------------------------
(* Path resolution *)

NeitherGiven == rs.index = None /\ rs.checksum_address = <<>>

BothGiven == rs.index # None /\ rs.checksum_address # <<>>

\* C11: a call of __get_address_path with neither an index nor an address,
\* or with both, raises the ambiguous-arguments error (the ValueError the
\* code raises for its arguments) without reading the cache and without
\* returning a path.
C11_ExactlyOneArgument ==
    rs.pc = "done" /\ (NeitherGiven \/ BothGiven) =>
        /\ rs.ret.exc = "ValueError"
        /\ rs.lookups = 0
        /\ rs.ret.val = <<>>

\* the 4 big-endian bytes of an index below 2^31
IndexBytes(i) ==
    <<(i \div 16777216) % 256, (i \div 65536) % 256, (i \div 256) % 256, i % 256>>

\* 44', 60', 0', 0 as 4 bytes each, top bit set on the hardened elements
RootBytes == <<128, 0, 0, 44, 128, 0, 0, 60, 128, 0, 0, 0, 0, 0, 0, 0>>

\* C12: the path __get_address_path derives for an index, in either class,
\* is 44', 60', 0', 0, index: five elements, 20 bytes when each element is
\* written as 4 big-endian bytes, the top bit set on exactly the first three.
C12_IndexPath ==
    rs.pc = "done" /\ rs.index # None /\ rs.checksum_address = <<>> =>
        /\ rs.ret.exc = "None"
        /\ (family = "trezor" => Len(rs.ret.val) = 5)
        /\ (IF family = "trezor" THEN Concat(rs.ret.val) ELSE rs.ret.val)
              = RootBytes \o IndexBytes(rs.index[1])

----------------------------------------------------------------------------
(* The dispatch on the signer URI *)

\* the scheme of each URI, or its path where it has no scheme
ExpectedKey(uri) ==
    CASE uri = <<"t", "r", "e", "z", "o", "r">> -> <<"t", "r", "e", "z", "o", "r">>
      [] uri = <<"t", "r", "e", "z", "o", "r", ":", "/", "/">> -> <<"t", "r", "e", "z", "o", "r">>
      [] uri = <<"t", "r", "e", "z", "o", "r", ":">> -> <<"t", "r", "e", "z", "o", "r">>
      [] uri = <<"T", "r", "e", "z", "o", "r", ":", "/", "/">> -> <<"t", "r", "e", "z", "o", "r">>
      [] uri = <<"t", "r", "e", "z", "o", "r", ":", "/", "/", "/", "m", "y", "/", "t", "r", "e", "z", "o", "r", "/", "p", "a", "t", "h">> -> <<"t", "r", "e", "z", "o", "r">>
      [] uri = <<"l", "e", "d", "g", "e", "r">> -> <<"l", "e", "d", "g", "e", "r">>
      [] uri = <<"l", "e", "d", "g", "e", "r", ":", "/", "/">> -> <<"l", "e", "d", "g", "e", "r">>
      [] uri = <<"c", "l", "e", "f">> -> <<"c", "l", "e", "f">>
      [] uri = <<"h", "t", "t", "p", ":", "/", "/", "l", "o", "c", "a", "l", "h", "o", "s", "t", "/", "r", "p", "c">> -> <<"h", "t", "t", "p">>
      [] uri = <<"/", "h", "o", "m", "e", "/", "k", "e", "y", "s", "t", "o", "r", "e">> -> <<"/", "h", "o", "m", "e", "/", "k", "e", "y", "s", "t", "o", "r", "e">>
      [] uri = <<>> -> <<>>

RegisteredSchemes == {<<"t", "r", "e", "z", "o", "r">>, <<"l", "e", "d", "g", "e", "r">>}

\* C13: Signer.from_signer_uri looks up the URI's scheme, or its path when
\* the scheme is empty.  For a registered key the registered class is called
\* and its result or error returned, the pass-through untouched; for an
\* unregistered key the pass-through signer is tried, its signer returned on
\* success, and InvalidSignerURI raised exactly when the pass-through raised
\* InvalidSignerURI.
C13_Dispatch ==
    ud.pc = "done" =>
        /\ ud.key = ExpectedKey(ud.uri)
        /\ (ud.key \in RegisteredSchemes =>
              /\ ud.passthrough = "None"
              /\ ud.cls = (IF ud.key = <<"t", "r", "e", "z", "o", "r">> THEN "TrezorSigner" ELSE "LedgerSigner")
              /\ (ud.ret.exc = "None" =>
                    /\ ud.ret.val = ud.cls
                    /\ initPc = "done"
                    /\ family = (IF ud.key = <<"t", "r", "e", "z", "o", "r">> THEN "trezor" ELSE "ledger"))
              /\ (initPc = "raised" => ud.ret.exc = initError))
        /\ (ud.key \notin RegisteredSchemes =>
              /\ ud.cls = "Web3Signer"
              /\ ud.passthrough \in PassThroughOutcomes
              /\ (ud.passthrough = "ok" => ud.ret = Return("Web3Signer"))
              /\ (ud.ret.exc = "InvalidSignerURI" <=> ud.passthrough = "InvalidSignerURI")
              /\ (ud.passthrough # "ok" => ud.ret.exc = ud.passthrough)
              /\ initPc = "new")

\* the bare token "trezor" (empty scheme, key taken from the path) has
\* selected and constructed a Trezor session
C13_Witness ==
    /\ ud.pc = "done"
    /\ ud.uri = <<"t", "r", "e", "z", "o", "r">>
    /\ ud.ret = Return("TrezorSigner")
    /\ initPc = "done"

\* C14: Signer.from_signer_uri("trezor") and Signer.from_signer_uri("trezor://")
\* each select the Trezor session class and construct a Trezor session;
\* neither raises InvalidSignerURI (a device fault may still end the
\* constructor).
C14_BothTrezorUriShapes ==
    ud.pc = "done" /\ ud.uri \in {<<"t", "r", "e", "z", "o", "r">>, <<"t", "r", "e", "z", "o", "r", ":", "/", "/">>} =>
        /\ ud.cls = "TrezorSigner"
        /\ ud.ret.exc # "InvalidSignerURI"
        /\ (ud.ret.exc = "None" => family = "trezor" /\ initPc = "done")

----------------------------------------------------------------------------
(* Operations of a session *)

LockOps == {"lock_account", "unlock_account"}

\* C15: lock_account and unlock_account always return success, issue no
\* device request and leave the session (cache, transport handle and every
\* other attribute) as it was, so that nothing a later sign_transaction
\* reads records a lock.
C15_LockIsNoOp ==
    [][\A c \in Callers :
          callers'[c] # callers[c] /\ callers'[c].op \in LockOps =>
              /\ callers'[c].pc = "done"
              /\ callers'[c].ret = Return(TRUE)
              /\ callers'[c].sent = <<>>
              /\ UNCHANGED sessionVars]_vars

\* an account was locked on a session on which a transaction is signed
C15_Witness ==
    \E c, d \in Callers :
        /\ callers[c].op = "lock_account"
        /\ callers[c].pc = "done"
        /\ callers[c].sender = devAddr[0]
        /\ callers[d].op = "sign_transaction"
        /\ callers[d].pc = "done"
        /\ callers[d].sender = devAddr[0]
        /\ callers[d].ret.exc = "None"

\* C16: sign_message of a Ledger session fails with an error for every
\* input; it never returns a value.
C16_LedgerSignMessageRaises ==
    \A c \in Callers :
        family = "ledger" /\ callers[c].op = "sign_message" /\ callers[c].pc = "done" =>
            callers[c].ret.exc # "None"

\* the payload bytes an APDU carries, after its 5-byte header
ChunkData(apdu) == SubSeq(apdu, 6, Len(apdu))

SentBytes == Concat([i \in 1..Len(ls.apdus) |-> ChunkData(ls.apdus[i])])

\* C17: nothing is retried in the chunked signing: the chunks exchanged are
\* consecutive pieces of the payload, each sent once, and when an exchange
\* fails the operation ends with the failed chunk as the last one sent,
\* everything after it unsent.
C17_NothingRetried ==
    ls.pc \in {"loop", "done"} /\ ls.apdus # <<>> =>
        /\ Len(SentBytes) <= Len(ls.payload)
        /\ SentBytes = SubSeq(ls.payload, 1, Len(SentBytes))
        /\ \A i \in 1..Len(ls.apdus) :
             ls.apdus[i][3] = (IF i = 1 THEN 0 ELSE 128)
        /\ (ls.ret.exc # "NoDeviceDetected" =>
              Len(SentBytes) + Len(ls.dataPayload) = Len(ls.payload))
        /\ (ls.ret.exc = "NoDeviceDetected" =>
              /\ ls.pc = "done"
              /\ Len(SentBytes) - Len(ChunkData(ls.apdus[Len(ls.apdus)]))
                    + Len(ls.dataPayload) = Len(ls.payload))

\* the exchange of the second of three chunks failed: the third was not sent
C17_Witness ==
    /\ ls.pc = "done"
    /\ ls.ret.exc = "NoDeviceDetected"
    /\ Len(ls.apdus) = 2
    /\ Len(ls.payload) > 2 * 255

\* C18: close() on a session that is already closed succeeds without
\* raising and leaves the handle released.
C18_CloseIdempotent ==
    \A c \in Callers :
        callers[c].op = "close" /\ callers[c].pc = "done" /\ callers[c].sent = <<>> =>
            /\ callers[c].ret.exc = "None"
            /\ handle = "None"

\* C20: two reads of accounts on a constructed session of either family
\* both return, and return the same ordered sequence of addresses.
C20_AccountsIdempotent ==
    \A c, d \in Callers :
        /\ callers[c].op = "accounts" /\ callers[c].pc = "done"
        /\ callers[d].op = "accounts" /\ callers[d].pc = "done"
        => /\ callers[c].ret.exc = "None"
           /\ callers[c].ret.val # <<>>
           /\ callers[c].ret = callers[d].ret

----------------------------------------------------------------------------
(* Two sessions *)

\* what session j reads as its driver: the class attribute of LedgerSigner
DriverSeenBy(j) == IF two.sess[j].family = "ledger" THEN two.driver ELSE 0

\* the transport handle, driver and address cache of session j
SessionView(j) == <<two.sess[j].handle, DriverSeenBy(j), two.sess[j].addresses>>

\* C19: two sessions share no state: an operation (construction, open,
\* accounts, sign_transaction, close) on one session leaves the transport
\* handle, the driver and the address cache of the other, constructed,
\* session unchanged.
C19_SessionsIndependent ==
    [][\A j \in Sessions :
          two'.actor # j /\ two.sess[j].state = "ready" =>
              SessionView(j)' = SessionView(j)]_vars

----------------------------------------------------------------------------
(* The signed transaction *)

\* the Ledger chunk loop has handed over the whole payload and parsed a
\* signature from the last response
LsSigned ==
    /\ ls.pc = "done"
    /\ ls.payload # <<>>
    /\ ls.dataPayload = <<>>
    /\ ls.ret.exc \notin {"IndexError", "ValueError", "NoDeviceDetected"}

----------------------------------------------------------------------------
(* Reopening a session *)

----------------------------------------------------------------------------
(* The chunks of a Ledger signing exchange *)

Min(a, b) == IF a < b THEN a ELSE b

\* the i-th piece of 255 bytes of a payload
PayloadPiece(payload, i) ==
    SubSeq(payload, 255 * (i - 1) + 1, Min(255 * i, Len(payload)))

C25_ChainIdCheckedFirst ==
    \A c \in Callers :
        /\ family = "trezor"
        /\ callers[c].op = "sign_transaction"
        /\ callers[c].pc = "done"
        /\ "chainId" \notin DOMAIN callers[c].req
        => /\ callers[c].ret.exc = "SignerError"
           /\ "from" \in DOMAIN callers[c].txd
           /\ callers[c].txd = callers[c].req

LsPathBytes == RootBytes \o IndexBytes(0)

\* the RLP bytes of the unsigned transaction of the signing request
LsEncodedTx == LedgerEncodeUnsigned(ls.txd).val

\* C27: the leading metadata of a Ledger signing exchange is atomic and in
\* the first chunk only: the first data byte of the first chunk is the path
\* element count (encoded path length / 4), the whole encoded path follows
\* it inside the first chunk, and what the first chunk carries after the
\* path and every later chunk carries is RLP transaction bytes, in order.
C27_PathInFirstChunk ==
    ls.apdus # <<>> =>
        LET first == ChunkData(ls.apdus[1])
            meta == 1 + Len(LsPathBytes)
        IN  /\ first[1] = Len(LsPathBytes) \div 4
            /\ Len(first) >= meta
            /\ SubSeq(first, 2, meta) = LsPathBytes
            /\ Len(SentBytes) - meta <= Len(LsEncodedTx)
            /\ SubSeq(SentBytes, meta + 1, Len(SentBytes))
                  = SubSeq(LsEncodedTx, 1, Len(SentBytes) - meta)

\* a payload of three chunks was sent: the count and the path lead the first
C27_Witness ==
    /\ Len(ls.apdus) = 3
    /\ ls.dataPayload = <<>>
    /\ ChunkData(ls.apdus[1])[1] = 5
    /\ Len(ChunkData(ls.apdus[1])) = 255

\* C28: chunk framing: each APDU's length byte equals the number of data
\* bytes it carries and lies in 1..255, every chunk but the last carries
\* exactly 255 bytes, the chunks' data in send order is the data payload
\* with no byte lost, duplicated or reordered, and the loop makes no more
\* exchanges than the payload has pieces.
C28_ChunkFraming ==
    /\ \A i \in 1..Len(ls.apdus) :
         /\ ls.apdus[i][5] = Len(ls.apdus[i]) - 5
         /\ ls.apdus[i][5] \in 1..255
         /\ (i < Len(ls.apdus) => ls.apdus[i][5] = 255)
         /\ (ls.apdus[i][5] < 255 =>
                255 * (i - 1) + ls.apdus[i][5] = Len(ls.payload))
    /\ (ls.pc \in {"loop", "done"} /\ ls.ret.exc # "NoDeviceDetected" =>
          SentBytes \o ls.dataPayload = ls.payload)
    /\ (ls.pc \in {"loop", "done"} /\ ls.dataPayload = <<>> =>
          SentBytes = ls.payload)
    /\ 255 * Len(ls.apdus) < Len(ls.payload) + 255

\* a payload that is not a multiple of 255 bytes was sent whole in two
\* chunks, the second shorter than the first
C28_Witness ==
    /\ Len(ls.apdus) = 2
    /\ ls.dataPayload = <<>>
    /\ ls.apdus[1][5] = 255
    /\ ls.apdus[2][5] \in 1..254
    /\ ls.pc = "done"

----------------------------------------------------------------------------
(* The signer middleware *)

\* an invocation of middleware(method, params) was made
MwInvoked == mw.pc \in {"ready", "sign"} /\ mw.method # "None"

\* the filled transaction names one of the accounts the middleware captured
MwFromCaptured ==
    /\ mw.filled
    /\ "from" \in DOMAIN mw.transaction
    /\ \E i \in 1..Len(mw.accounts) : mw.accounts[i] = mw.transaction["from"]

\* C29: the signer middleware forwards a request unchanged (same method,
\* same params) through make_request, and never calls
\* signer.sign_transaction, whenever the method is not eth_sendTransaction,
\* or the filled transaction has no `from`, or its `from` is not in the
\* account list captured when the middleware was constructed.
C29_PassThrough ==
    /\ MwInvoked
    /\ \/ mw.method # "eth_sendTransaction"
       \/ mw.filled /\ ~MwFromCaptured
    => /\ mw.pc = "ready"
       /\ Len(mw.sent) = 1
       /\ mw.sent[1].method = mw.method
       /\ mw.sent[1].params = mw.params
       /\ mw.signed = <<>>

\* an eth_sendTransaction from an address the signer does not hold was
\* forwarded
C29_Witness ==
    /\ mw.pc = "ready"
    /\ mw.method = "eth_sendTransaction"
    /\ mw.filled
    /\ "from" \in DOMAIN mw.transaction
    /\ mw.transaction["from"] = UnknownAddress
    /\ Len(mw.sent) = 1
    /\ mw.sent[1].method = "eth_sendTransaction"

\* C30: for an eth_sendTransaction whose `from` is one of the captured
\* accounts the middleware calls signer.sign_transaction exactly once, on
\* the formatted and filled transaction, and then makes exactly one
\* make_request, of eth_sendRawTransaction with the raw signed transaction;
\* the original request is never forwarded, and when sign_transaction
\* raises no request is made and the exception leaves the middleware.
C30_SigningPath ==
    MwInvoked /\ mw.method = "eth_sendTransaction" /\ MwFromCaptured =>
        /\ mw.signed = <<mw.transaction>>
        /\ {"nonce", "value", "data", "gas", "gasPrice", "chainId"}
              \subseteq DOMAIN mw.transaction
        /\ \A i \in 1..Len(mw.sent) : mw.sent[i].method # "eth_sendTransaction"
        /\ (mw.pc = "sign" => mw.sent = <<>>)
        /\ (mw.pc = "ready" /\ mw.signRet.exc = "None" =>
              /\ Len(mw.sent) = 1
              /\ mw.sent[1].method = "eth_sendRawTransaction"
              /\ mw.sent[1].params = <<mw.signRet.val>>)
        /\ (mw.pc = "ready" /\ mw.signRet.exc # "None" =>
              /\ mw.sent = <<>>
              /\ mw.ret = mw.signRet)

\* a transaction of a captured account given without nonce and gas was
\* filled, signed and sent raw
C30_Witness ==
    /\ mw.pc = "ready"
    /\ mw.method = "eth_sendTransaction"
    /\ Len(mw.signed) = 1
    /\ mw.transaction["from"] = devAddr[0]
    /\ "nonce" \notin DOMAIN mw.params[1]
    /\ mw.w3calls = <<"getTransactionCount", "gas">>
    /\ mw.signRet.exc = "None"
    /\ Len(mw.sent) = 1
    /\ mw.sent[1].method = "eth_sendRawTransaction"

====
